---- MODULE Spec2Model ----
(***************************************************************************)
(* Arduino-TWI: the software (bit-banged) two-wire bus manager,            *)
(* Software::TWI version 1.1, together with the TWI::Device handle, driven *)
(* by cooperative tasks and co-simulated with a slave on the two lines.    *)
(*                                                                         *)
(* A GPIO pin in open-drain mode is "in" (released, pulled high by the     *)
(* external resistor) or "out" (driven low).  The level of the data line   *)
(* is high only when the master, the slave and every other agent release   *)
(* it.  The slave stretches the clock only where the master polls it       *)
(* (clock_stretching); where the master releases the clock without         *)
(* polling the clock is taken to rise.  A slave that held the clock low    *)
(* for the whole retry budget drops out of the frame: it releases both     *)
(* lines and waits for the next start condition.                           *)
(***************************************************************************)
EXTENDS Integers, Sequences, FiniteSets, TLC

\* ---------------------------------------------------------------- bounds
NTasks == 2
MaxCount == 2
MaxSegs == 2
MaxSegLen == 1
MaxAtByte == 2
MaxNack == 1

\* ------------------------------------------------------- program constants
RETRY_MAX_short == 25 - 1
CLOCK_STRETCHING_RETRY_MAX == 25
T1 == 4
T2 == 5

\* ------------------------------------------------------------ environment
Tasks == 1..NTasks
Addr7 == 0..127
Devices == {80, 104}
DataAddrs == {80, 127}
StretchLens == {0, 24, 25}
StretchBits == {0, 8}
\* the NULL io vector pointer (every io vector holds at least the sentinel)
NULLVP == << >>

RECURSIVE SeqsUpTo(_, _)
SeqsUpTo(S, n) ==
  IF n = 0 THEN {<< >>}
  ELSE LET R == SeqsUpTo(S, n - 1)
       IN R \cup {Append(q, x) : q \in {r \in R : Len(r) = n - 1}, x \in S}

\* the data on the bus: consecutive bytes of one pattern, so that every byte
\* of a frame differs from its neighbours (90, 195, 44, 149, ...)
DataByte(i) == (90 + 105 * (i - 1)) % 256
Bytes(from, n) == [i \in 1..n |-> DataByte(from + i - 1)]

\* iovec_t arrays: segments (buf, size) closed by the sentinel (buf == NULL);
\* null tells whether buf is the NULL pointer
Segment(b) == [null |-> FALSE, buf |-> b, size |-> Len(b)]
Sentinel == [null |-> TRUE, buf |-> << >>, size |-> 0]
RECURSIVE Fill(_, _)
Fill(sizes, from) ==
  IF sizes = << >> THEN <<Sentinel>>
  ELSE <<Segment(Bytes(from, Head(sizes)))>> \o Fill(Tail(sizes), from + Head(sizes))
\* the bytes of an io vector in the order of its segments
RECURSIVE Flatten(_)
Flatten(vp) == IF Head(vp).null THEN << >> ELSE Head(vp).buf \o Flatten(Tail(vp))
Descriptors == {Fill(sizes, 1) : sizes \in SeqsUpTo(0..MaxSegLen, MaxSegs)}

\* what the other side of the bus does during one call of the bus manager:
\* held   another agent pulls the data line low during the whole call
\* at,len the at-th wait for the clock of the call meets len low polls
\* nackAt the slave refuses the nackAt-th data byte of a frame (0: none)
\* rdata  the bytes an addressed slave transmits
NoEnv == [held |-> FALSE, at |-> 0, len |-> 0, nackAt |-> 0, rdata |-> << >>]
Stretches == {[at |-> 0, len |-> 0]} \cup
             {[at |-> 9 * by + bi, len |-> l] : by \in 0..MaxAtByte, bi \in StretchBits,
                                               l \in StretchLens \ {0}}
AcquireEnvs == {[NoEnv EXCEPT !.held = h] : h \in BOOLEAN}
ReleaseEnvs == {[NoEnv EXCEPT !.held = h, !.len = l] : h \in BOOLEAN, l \in StretchLens}
StretchEnvs == {[NoEnv EXCEPT !.at = s.at, !.len = s.len] : s \in Stretches}
WriteEnvs == {[NoEnv EXCEPT !.held = TRUE]} \cup StretchEnvs \cup
             {[NoEnv EXCEPT !.nackAt = k] : k \in 1..MaxNack} \cup
             {[NoEnv EXCEPT !.nackAt = 1, !.at = 8, !.len = 24]}
ProbeEnvs == {NoEnv, [NoEnv EXCEPT !.held = TRUE], [NoEnv EXCEPT !.at = 8, !.len = 25]}
ReadEnvs(n) == {[e EXCEPT !.rdata = Bytes(1, n)] :
                  e \in {[NoEnv EXCEPT !.held = TRUE]} \cup StretchEnvs} \cup
               {[NoEnv EXCEPT !.rdata = Bytes(2, n)]}

\* the calls of the task on the instrumented bus; the clock is stretched
\* during the longest writes, the other conditions meet every write
ReadArgs == UNION {{[a |-> a, count |-> n, env |-> e] : a \in DataAddrs, e \in ReadEnvs(n)} :
                     n \in 1..MaxCount} \cup
            {[a |-> a, count |-> 0, env |-> e] : a \in DataAddrs, e \in ReadEnvs(1)}
LongDescriptors == {NULLVP, Fill([i \in 1..MaxSegs |-> MaxSegLen], 1)}
WriteArgs == {[a |-> a, vp |-> vp, env |-> e] :
                a \in DataAddrs, vp \in Descriptors \cup {NULLVP},
                e \in (WriteEnvs \ StretchEnvs) \cup {NoEnv}} \cup
             {[a |-> a, vp |-> vp, env |-> e] :
                a \in DataAddrs, vp \in LongDescriptors, e \in StretchEnvs}
\* a read of one byte from every address right after acquire()
PollArgs == {[a |-> a, count |-> 1, env |-> [NoEnv EXCEPT !.rdata = Bytes(1, 1)]] :
               a \in Addr7}
\* a read of one byte of any value right after acquire()
FetchArgs == {[a |-> 104, count |-> 1, env |-> [NoEnv EXCEPT !.rdata = <<b>>]] : b \in 0..255}
ProbeArgs == {[a |-> a, vp |-> NULLVP, env |-> e] : a \in Addr7, e \in ProbeEnvs}

\* the calls of the driver functions: register address, size and the
\* environments of the calls of the bus manager they make
DrvEnvs == {[acq |-> a, wr |-> w, rd |-> [r EXCEPT !.rdata = Bytes(1, MaxCount)], rel |-> l] :
              a \in AcquireEnvs,
              w \in {NoEnv, [NoEnv EXCEPT !.nackAt = 1], [NoEnv EXCEPT !.at = 9, !.len = 25]},
              r \in {NoEnv, [NoEnv EXCEPT !.at = 17, !.len = 25]},
              l \in {NoEnv, [NoEnv EXCEPT !.len = 25]}}
ReadRamArgs == {[addr |-> a, count |-> n, env |-> e] :
                  a \in {0, 8}, n \in 0..MaxCount, e \in DrvEnvs}

\* the calls of the competing tasks
TaskEnvs == {NoEnv, [NoEnv EXCEPT !.held = TRUE], [NoEnv EXCEPT !.len = 25],
             [NoEnv EXCEPT !.nackAt = 1]}
TaskReadArgs == {[a |-> 80, count |-> n, env |-> [e EXCEPT !.rdata = <<90>>]] :
                   n \in 0..1, e \in {x \in TaskEnvs : x.nackAt = 0}}
TaskWriteArgs == {[a |-> a, vp |-> vp, env |-> e] :
                    a \in {80, 127},
                    vp \in {NULLVP, <<Segment(<<90>>), Sentinel>>},
                    e \in TaskEnvs}

\* --------------------------------------------------------------- bit ops
BitAt(b, i) == (b \div (2 ^ (7 - i))) % 2
\* read(m_addr, buf, count) with a forgotten read bit
Or1_keep(addr) == addr
Or1(addr) == IF addr % 2 = 0 THEN addr + 1 ELSE addr

\* ------------------------------------------------------------------ slave
SlaveInit == [mode |-> "idle", n |-> 0, sh |-> 0, drv |-> FALSE,
              ti |-> 0, ri |-> 0, mack |-> FALSE]

TxByte(m, i) == IF i < Len(m.env.rdata) THEN m.env.rdata[i + 1] ELSE 255

Level(m) == IF m.sda = "in" /\ ~m.slave.drv /\ ~m.env.held THEN 1 ELSE 0

SlaveStart(m) ==
  [m EXCEPT !.slave = [SlaveInit EXCEPT !.mode = "addr"],
            !.obs = Append(@, [k |-> "S", v |-> 0, ack |-> FALSE])]

SlaveStop(m) ==
  [m EXCEPT !.slave = SlaveInit,
            !.obs = Append(@, [k |-> "P", v |-> 0, ack |-> FALSE])]

\* rising clock edge: the slave samples the data line
SlaveRise(m) ==
  LET s == m.slave
      lvl == Level(m)
  IN CASE s.mode \in {"addr", "rx"} /\ s.n < 8 ->
            [m EXCEPT !.slave.sh = (s.sh * 2 + lvl) % 256, !.slave.n = s.n + 1]
       [] s.mode \in {"addr", "rx"} /\ s.n = 8 ->
            [m EXCEPT !.slave.n = 9]
       [] s.mode = "tx" /\ s.n < 8 ->
            [m EXCEPT !.slave.n = s.n + 1]
       [] s.mode = "tx" /\ s.n = 8 ->
            [m EXCEPT !.slave.n = 9, !.slave.mack = (lvl = 0),
                      !.obs = Append(@, [k |-> "R", v |-> TxByte(m, s.ti), ack |-> (lvl = 0)])]
       [] OTHER -> m

\* falling clock edge: the slave changes its drive of the data line
SlaveFall(m) ==
  LET s == m.slave
  IN CASE s.mode = "addr" /\ s.n = 8 ->
            IF (s.sh \div 2) \in Devices
            THEN [m EXCEPT !.slave.drv = TRUE,
                           !.obs = Append(@, [k |-> "A", v |-> s.sh, ack |-> TRUE])]
            ELSE [m EXCEPT !.slave = SlaveInit,
                           !.obs = Append(@, [k |-> "A", v |-> s.sh, ack |-> FALSE])]
       [] s.mode = "addr" /\ s.n = 9 ->
            IF s.sh % 2 = 1
            THEN [m EXCEPT !.slave = [SlaveInit EXCEPT !.mode = "tx",
                                        !.drv = (BitAt(TxByte(m, 0), 0) = 0)]]
            ELSE [m EXCEPT !.slave = [SlaveInit EXCEPT !.mode = "rx"]]
       [] s.mode = "rx" /\ s.n = 8 ->
            LET acks == (m.env.nackAt # s.ri + 1)
            IN [m EXCEPT !.slave.ri = IF s.ri > MaxNack THEN s.ri ELSE s.ri + 1, !.slave.drv = acks,
                         !.obs = Append(@, [k |-> "W", v |-> s.sh, ack |-> acks])]
       [] s.mode = "rx" /\ s.n = 9 ->
            [m EXCEPT !.slave.n = 0, !.slave.sh = 0, !.slave.drv = FALSE]
       [] s.mode = "tx" /\ s.n \in 1..7 ->
            [m EXCEPT !.slave.drv = (BitAt(TxByte(m, s.ti), s.n) = 0)]
       [] s.mode = "tx" /\ s.n = 8 ->
            [m EXCEPT !.slave.drv = FALSE]
       [] s.mode = "tx" /\ s.n = 9 ->
            IF s.mack
            THEN [m EXCEPT !.slave.ti = IF s.ti >= MaxCount THEN s.ti ELSE s.ti + 1, !.slave.n = 0,
                           !.slave.drv = (BitAt(TxByte(m, s.ti + 1), 0) = 0)]
            ELSE [m EXCEPT !.slave = SlaveInit]
       [] OTHER -> m

\* ----------------------------------------------------------- signal lines
Ev(m, op, lvl) == [op |-> op, lvl |-> lvl, sda |-> m.sda, scl |-> m.scl]

\* m_sda.input(): release the data line
sda_input(m) ==
  LET m1 == [m EXCEPT !.sda = "in"]
      m2 == [m1 EXCEPT !.tr = Append(@, Ev(m1, "sda_in", 1))]
  IN IF m.high /\ Level(m) = 0 /\ Level(m1) = 1 THEN SlaveStop(m2) ELSE m2

\* m_sda.output(): drive the data line low
sda_output(m) ==
  LET m1 == [m EXCEPT !.sda = "out"]
      m2 == [m1 EXCEPT !.tr = Append(@, Ev(m1, "sda_out", 1))]
  IN IF m.high /\ Level(m) = 1 THEN SlaveStart(m2) ELSE m2

\* m_scl.input(): release the clock line
scl_input(m) ==
  LET m1 == [m EXCEPT !.scl = "in"]
  IN [m1 EXCEPT !.tr = Append(@, Ev(m1, "scl_in", 1))]

\* the released clock line goes high
scl_rise(m) ==
  IF m.high THEN m ELSE [SlaveRise(m) EXCEPT !.high = TRUE]

\* m_scl.output(): drive the clock line low
scl_output(m) ==
  LET m1 == [m EXCEPT !.scl = "out"]
      m2 == [m1 EXCEPT !.tr = Append(@, Ev(m1, "scl_out", 1))]
  IN IF m.high THEN [SlaveFall(m2) EXCEPT !.high = FALSE] ELSE m2

\* if (m_sda == 0) / value = m_sda: read the level of the data line
sda_read(m) ==
  [m EXCEPT !.val = Level(m), !.tr = Append(@, Ev(m, "read", Level(m)))]

\* if (m_scl): read the level of the clock line
scl_read(m, lvl) ==
  [m EXCEPT !.val = lvl, !.tr = Append(@, Ev(m, "poll", lvl))]

\* delayMicroseconds(us): no effect on the lines
delayMicroseconds(m, us) == m

\* ------------------------------------------------- Software::TWI (v1.1)
\* the machine record m: the pins (sda, scl), the bus (high, slave), the
\* members m_busy (busy) and m_start (start), the line events (tr) and the slave's observations
\* (obs) of the running call, its results (ok, val, byte, buf, res, tmo) and
\* the number of waits for the clock so far (nclk); calls is the list of the
\* calls of the bus manager a driver function has made
\* (again: its retry loop goes on, yielded: it has called delay())

LowPolls(m) ==
  IF m.high THEN 0 ELSE IF m.nclk = m.env.at THEN m.env.len ELSE 0

\* a wait for the clock without a retry ceiling: while (!m_scl) delay
RECURSIVE stretch_loop_nolimit(_, _, _)
stretch_loop_nolimit(m, retry, k) ==
  IF retry >= k
  THEN [scl_read(scl_rise(m), 1) EXCEPT !.ok = TRUE]
  ELSE stretch_loop_nolimit(delayMicroseconds(scl_read(m, 0), T1), retry + 1, k)

RECURSIVE stretch_loop(_, _, _)
stretch_loop(m, retry, k) ==
  IF retry < CLOCK_STRETCHING_RETRY_MAX
  THEN IF retry >= k
       THEN [scl_read(scl_rise(m), 1) EXCEPT !.ok = TRUE]
       ELSE stretch_loop(delayMicroseconds(scl_read(m, 0), T1), retry + 1, k)
  ELSE [m EXCEPT !.ok = FALSE, !.tmo = TRUE, !.slave = SlaveInit, !.high = TRUE]

clock_stretching(m) ==
  stretch_loop([m EXCEPT !.nclk = @ + 1], 0, LowPolls(m))

start_condition_nocheck(m) ==
  LET m1 == sda_read(sda_input(m))
      m2 == delayMicroseconds(sda_output(m1), T1)
  IN [scl_output(m2) EXCEPT !.ok = TRUE]

start_condition(m) ==
  LET m1 == sda_read(sda_input(m))
  IN IF m1.val = 0 THEN [m1 EXCEPT !.ok = FALSE]
     ELSE LET m2 == delayMicroseconds(sda_output(m1), T1)
          IN [scl_output(m2) EXCEPT !.ok = TRUE]

stop_condition(m) ==
  LET m1 == sda_output(delayMicroseconds(m, T1))
      m2 == delayMicroseconds(scl_input(m1), T1)
      m3 == clock_stretching(m2)
  IN IF ~m3.ok THEN m3
     ELSE LET m4 == sda_read(sda_input(m3))
          IN [m4 EXCEPT !.ok = (m4.val = 0)]

\* the legacy closing sequence: a stop followed by a start
repeated_start_condition_stop(m) ==
  start_condition(stop_condition(m))

\* a repeated start that releases the clock before the data line
repeated_start_condition_clockfirst(m) ==
  LET m0 == delayMicroseconds(scl_rise(scl_input(delayMicroseconds(m, T1))), T2)
      m1 == sda_read(sda_input(m0))
  IN IF m1.val = 0 THEN [m1 EXCEPT !.ok = FALSE]
     ELSE LET m3 == delayMicroseconds(sda_output(m1), T1)
          IN [scl_output(m3) EXCEPT !.ok = TRUE]

repeated_start_condition(m) ==
  LET m1 == sda_read(sda_input(delayMicroseconds(m, T1)))
  IN IF m1.val = 0 THEN [m1 EXCEPT !.ok = FALSE]
     ELSE LET m2 == delayMicroseconds(scl_rise(scl_input(m1)), T2)
              m3 == delayMicroseconds(sda_output(m2), T1)
          IN [scl_output(m3) EXCEPT !.ok = TRUE]

write_bit(m, value) ==
  LET m1 == IF value THEN sda_input(m) ELSE sda_output(m)
      m2 == delayMicroseconds(scl_input(delayMicroseconds(m1, T2)), T1)
      m3 == clock_stretching(m2)
  IN IF ~m3.ok THEN m3
     ELSE [scl_output(m3) EXCEPT !.ok = TRUE]

read_bit(m) ==
  LET m1 == sda_input(m)
      m2 == delayMicroseconds(scl_input(delayMicroseconds(m1, T2)), T1)
      m3 == clock_stretching(m2)
  IN IF ~m3.ok THEN m3
     ELSE LET m4 == sda_read(m3)
          IN [scl_output(m4) EXCEPT !.ok = TRUE]

\* a byte writer that shifts the least significant bit out first
RECURSIVE write_bits_lsb(_, _, _)
write_bits_lsb(m, byte, i) ==
  IF i < 8
  THEN LET m1 == write_bit(m, byte % 2 = 1)
       IN IF ~m1.ok THEN m1 ELSE write_bits_lsb(m1, byte \div 2, i + 1)
  ELSE read_bit(m)

RECURSIVE write_bits(_, _, _)
write_bits(m, byte, i) ==
  IF i < 8
  THEN LET m1 == write_bit(m, (byte \div 128) % 2 = 1)
       IN IF ~m1.ok THEN m1 ELSE write_bits(m1, (byte * 2) % 256, i + 1)
  ELSE read_bit(m)

\* returns ok; the out parameter nack is val (1: not acknowledged)
write_byte(m, byte) == write_bits(m, byte, 0)

\* a byte reader that takes the first sampled level as the least significant bit
RECURSIVE read_bits_lsb(_, _, _)
read_bits_lsb(m, ack, i) ==
  IF i < 8
  THEN LET m1 == read_bit(m)
       IN IF ~m1.ok THEN m1
          ELSE read_bits_lsb([m1 EXCEPT !.byte = (m1.byte \div 2) + 128 * m1.val], ack, i + 1)
  ELSE write_bit(m, ~ack)

RECURSIVE read_bits(_, _, _)
read_bits(m, ack, i) ==
  IF i < 8
  THEN LET m1 == read_bit(m)
       IN IF ~m1.ok THEN m1
          ELSE read_bits([m1 EXCEPT !.byte = ((m1.byte * 2) % 256) + m1.val], ack, i + 1)
  ELSE write_bit(m, ~ack)

\* returns ok; the out parameter is byte
read_byte(m, ack) == read_bits([m EXCEPT !.byte = 0], ack, 0)

\* return (-1)
return_error_release(m) == [m EXCEPT !.res = -1, !.busy = FALSE]
return_error(m) == [m EXCEPT !.res = -1]

RECURSIVE read_loop_allack(_, _, _)
read_loop_allack(m, size, count) ==
  IF size # 0
  THEN LET m1 == read_byte(m, TRUE)
       IN IF ~m1.ok THEN return_error(m1)
          ELSE read_loop_allack([m1 EXCEPT !.buf = Append(@, m1.byte)], size - 1, count)
  ELSE [m EXCEPT !.res = count]

\* a read loop that returns the number of bytes read so far on a failure
RECURSIVE read_loop_partial(_, _, _)
read_loop_partial(m, size, count) ==
  IF size # 0
  THEN LET ack == (size - 1 # 0)
           m1 == read_byte(m, ack)
       IN IF ~m1.ok THEN [m1 EXCEPT !.res = count - size]
          ELSE read_loop_partial([m1 EXCEPT !.buf = Append(@, m1.byte)], size - 1, count)
  ELSE [m EXCEPT !.res = count]

RECURSIVE read_loop(_, _, _)
read_loop(m, size, count) ==
  IF size # 0
  THEN LET ack == (size - 1 # 0)
           m1 == read_byte(m, ack)
       IN IF ~m1.ok THEN return_error(m1)
          ELSE read_loop([m1 EXCEPT !.buf = Append(@, m1.byte)], size - 1, count)
  ELSE [m EXCEPT !.res = count]

\* a read() that leaves the transaction marked fresh
TWI_read_keepstart(m, addr, count) ==
  LET m0 == IF ~m.start THEN repeated_start_condition(m) ELSE [m EXCEPT !.ok = TRUE]
  IN IF ~m0.ok THEN return_error(m0)
     ELSE LET m1 == write_byte(m0, Or1(addr))
          IN IF ~m1.ok \/ m1.val = 1 THEN return_error(m1)
             ELSE read_loop(m1, count, count)

TWI_read(m, addr, count) ==
  LET m0 == IF ~m.start THEN repeated_start_condition(m) ELSE [m EXCEPT !.ok = TRUE]
  IN IF ~m0.ok THEN return_error(m0)
     ELSE LET m1 == write_byte([m0 EXCEPT !.start = FALSE], Or1(addr))
          IN IF ~m1.ok \/ m1.val = 1 THEN return_error(m1)
             ELSE read_loop(m1, count, count)

\* a write loop that goes on after a byte that was not acknowledged
RECURSIVE write_buf_ignorenack(_, _, _)
write_buf_ignorenack(m, bp, size) ==
  IF size # 0
  THEN LET m1 == write_byte(m, Head(bp))
       IN IF ~m1.ok THEN [m1 EXCEPT !.ok = FALSE]
          ELSE write_buf_ignorenack(m1, Tail(bp), size - 1)
  ELSE [m EXCEPT !.ok = TRUE]

RECURSIVE write_buf(_, _, _)
write_buf(m, bp, size) ==
  IF size # 0
  THEN LET m1 == write_byte(m, Head(bp))
       IN IF ~m1.ok \/ m1.val = 1 THEN [m1 EXCEPT !.ok = FALSE]
          ELSE write_buf(m1, Tail(bp), size - 1)
  ELSE [m EXCEPT !.ok = TRUE]

write_vec_first(m, vp, count) ==
  IF ~Head(vp).null
  THEN LET m1 == write_buf(m, Head(vp).buf, Head(vp).size)
       IN IF ~m1.ok THEN return_error(m1)
          ELSE [m1 EXCEPT !.res = count + Head(vp).size]
  ELSE [m EXCEPT !.res = count]

RECURSIVE write_vec(_, _, _)
write_vec(m, vp, count) ==
  IF ~Head(vp).null
  THEN LET m1 == write_buf(m, Head(vp).buf, Head(vp).size)
       IN IF ~m1.ok THEN return_error(m1)
          ELSE write_vec(m1, Tail(vp), count + Head(vp).size)
  ELSE [m EXCEPT !.res = count]

TWI_write(m, addr, vp) ==
  LET m0 == IF ~m.start THEN repeated_start_condition(m) ELSE [m EXCEPT !.ok = TRUE]
  IN IF ~m0.ok THEN return_error(m0)
     ELSE LET m1 == write_byte([m0 EXCEPT !.start = FALSE], addr)
          IN IF ~m1.ok \/ m1.val = 1 THEN return_error(m1)
             ELSE IF vp = NULLVP THEN [m1 EXCEPT !.res = 0]
             ELSE write_vec(m1, vp, 0)

\* the wait for m_busy is the guard of the action Acquire
\* an acquire() that does not mark the transaction fresh
TWI_acquire_nofresh(m) == start_condition([m EXCEPT !.busy = TRUE])
\* an acquire() that gives the bus back when the start condition fails
TWI_acquire_giveup(m) ==
  LET r == start_condition([m EXCEPT !.busy = TRUE, !.start = TRUE])
  IN [r EXCEPT !.busy = r.ok]
TWI_acquire(m) == start_condition([m EXCEPT !.busy = TRUE, !.start = TRUE])

TWI_release_onstop(m) ==
  LET r == stop_condition([m EXCEPT !.start = FALSE])
  IN [r EXCEPT !.busy = ~r.ok]
\* a release() that stops only when an operation has been made since acquire()
TWI_release_ifused(m) ==
  IF m.start THEN [m EXCEPT !.start = FALSE, !.busy = FALSE, !.ok = TRUE]
  ELSE stop_condition([m EXCEPT !.start = FALSE, !.busy = FALSE])
\* a release() that returns to the scheduler once the flags are cleared
TWI_release_nostop(m) == [m EXCEPT !.start = FALSE, !.busy = FALSE, !.ok = TRUE]
TWI_release(m) == stop_condition([m EXCEPT !.start = FALSE, !.busy = FALSE])

\* TWI::Device: the constructor stores addr << 1 in the uint8_t m_addr
Device_addr_noshift(a) == a % 256
Device_addr(a) == (a * 2) % 256

\* TWI::write(addr, buf, count): the buffer as an io vector of one segment
TWI_write_buf(m, addr, buf) == TWI_write(m, addr, <<Segment(buf), Sentinel>>)

\* ------------------------------------------------------------ DS1307
\* the next call of the bus manager made by a driver function meets its own
\* environment
Call(m, env) == [m EXCEPT !.env = env, !.nclk = 0]

\* the statements of a driver function run one after the other: the machine
\* record a call has left is the x of {f(x) : x \in {call}}, and Only takes
\* the one element of that set
Only(S) == CHOOSE x \in S : TRUE

\* DS1307(TWI& twi) : TWI::Device(twi, 0x68)
DS1307_ADDR == 104

\* bool read_ram(uint8_t addr, void* buf, size_t count); e holds the
\* environments of its calls; the result is ok
DS1307_read_ram(m, addr, count, e) ==
  Only({IF ~m1.ok THEN [m1 EXCEPT !.ok = FALSE]
        ELSE Only({IF m2.res # 1 THEN [m2 EXCEPT !.ok = FALSE]
                   ELSE Only({Only({IF ~m4.ok THEN [m4 EXCEPT !.ok = FALSE]
                                    ELSE [m4 EXCEPT !.ok = (m3.res = count)] :
                                    m4 \in {TWI_release(Call(m3, e.rel))}}) :
                              m3 \in {TWI_read(Call(m2, e.rd), Device_addr(DS1307_ADDR), count)}}) :
                   m2 \in {TWI_write_buf(Call(m1, e.wr), Device_addr(DS1307_ADDR), <<addr>>)}}) :
        m1 \in {TWI_acquire(Call(m, e.acq))}})


\* ----------------------------------------------------------- AT24CXX
\* AT24CXX(twi, subaddr = 0, ...) : TWI::Device(twi, 0x50 | (subaddr & 0x07))
AT24CXX_ADDR == 80
RETRY_MAX == 20
RETRY_DELAY_MS == 1

\* delay(ms): no effect on the bus manager; the scheduler runs the other
\* tasks meanwhile
delay(m, ms) == [m EXCEPT !.yielded = TRUE]

\* the calls of the bus manager made by a driver function, each entered in
\* the list of calls with its result
Logged(v, op, arg) ==
  Only({[r EXCEPT !.calls = Append(@, [op |-> op, arg |-> arg, ok |-> r.ok, res |-> r.res])] :
        r \in {v}})
Dev_acquire(m, env) == Logged(TWI_acquire(Call(m, env)), "acquire", << >>)
Dev_release(m, env) == Logged(TWI_release(Call(m, env)), "release", << >>)
Dev_write(m, env, a, vp) ==
  Logged(TWI_write(Call(m, env), Device_addr(a), vp), "write", Flatten(vp))
Dev_read(m, env, a, count) ==
  Logged(TWI_read([Call(m, env) EXCEPT !.buf = << >>], Device_addr(a), count), "read", <<count>>)

\* __builtin_bswap16(x) stored in memory: high byte first
bswap16(x) == <<(x \div 256) % 256, x % 256>>

\* int read(void* dest, uint16_t src, size_t count): the body of the retry
\* loop; e holds the environments of its calls; again tells that the body
\* has reached delay(RETRY_DELAY_MS), otherwise the function returns res
AT24CXX_read_release(m5, e) ==
  Only({IF ~m6.ok THEN [m6 EXCEPT !.res = -1, !.again = FALSE]
        ELSE [delay(m6, RETRY_DELAY_MS) EXCEPT !.again = TRUE] :
        m6 \in {Dev_release(m5, e.rel2)}})

AT24CXX_read_body(m, src, count, e) ==
  Only({IF ~m1.ok THEN [m1 EXCEPT !.res = -1, !.again = FALSE]
        ELSE Only({IF m2.res = 2
                   THEN Only({Only({IF ~m4.ok THEN [m4 EXCEPT !.res = -1, !.again = FALSE]
                                    ELSE IF m3.res = count
                                         THEN [m4 EXCEPT !.res = m3.res, !.again = FALSE]
                                         ELSE AT24CXX_read_release(m4, e) :
                                    m4 \in {Dev_release(m3, e.rel)}}) :
                              m3 \in {Dev_read(m2, e.rd, AT24CXX_ADDR, count)}})
                   ELSE AT24CXX_read_release(m2, e) :
                   m2 \in {Dev_write(m1, e.wr, AT24CXX_ADDR,
                                     <<Segment(bswap16(src)), Sentinel>>)}}) :
        m1 \in {Dev_acquire(m, e.acq)}})

\* dest & PAGE_MASK on uint16_t
RECURSIVE BitAnd(_, _)
BitAnd(a, b) ==
  IF a = 0 \/ b = 0 THEN 0
  ELSE 2 * BitAnd(a \div 2, b \div 2) + (IF a % 2 = 1 /\ b % 2 = 1 THEN 1 ELSE 0)

\* a first chunk that ignores the position of dest in its page
first_chunk_unaligned(dest, count, PAGE_MAX) ==
  IF PAGE_MAX > count THEN count ELSE PAGE_MAX

\* int write(uint16_t dest, const void* src, size_t count):
\* size_t n = PAGE_MAX - (dest & PAGE_MASK); if (n > s) n = s;
first_chunk(dest, count, PAGE_MAX) ==
  LET n == PAGE_MAX - BitAnd(dest, PAGE_MAX - 1)
  IN IF n > count THEN count ELSE n

\* the io vector of a chunk: the address, high byte first, and n bytes at p
chunk_vec(d, src) ==
  <<Segment(bswap16(d.dest)), Segment(SubSeq(src, d.off + 1, d.off + d.n)), Sentinel>>

\* the body of the retry loop of write; res0 is the local res before it
AT24CXX_write_body(m, vec, res0, e) ==
  Only({IF ~m1.ok THEN [m1 EXCEPT !.again = TRUE]
        ELSE Only({Only({IF ~m3.ok THEN [m3 EXCEPT !.again = TRUE]
                         ELSE IF m3.res > 0 THEN [m3 EXCEPT !.again = FALSE]
                         ELSE [delay(m3, RETRY_DELAY_MS) EXCEPT !.again = TRUE] :
                         m3 \in {Dev_release(m2, e.rel)}}) :
                   m2 \in {Dev_write(m1, e.wr, AT24CXX_ADDR, vec)}}) :
        m1 \in {Dev_acquire([m EXCEPT !.res = res0], e.acq)}})

\* } while (--retry); and the rest of the while (1) loop: d holds the locals
\* before the pass that left m
AT24CXX_write_next(d, m) ==
  IF m.again /\ d.retry - 1 # 0
  THEN [d EXCEPT !.retry = d.retry - 1, !.res = m.res]
  ELSE IF m.res < 0 THEN [d EXCEPT !.res = -1, !.done = TRUE]
  ELSE IF d.s - d.n = 0 THEN [d EXCEPT !.res = d.count, !.s = 0, !.done = TRUE]
  ELSE LET s == d.s - d.n
           n == IF s < d.page THEN s ELSE d.page
       IN [d EXCEPT !.s = s, !.dest = (d.dest + d.n) % 65536, !.off = d.off + d.n,
                    !.n = n, !.retry = RETRY_MAX, !.res = -1,
                    !.chunks = Append(@, [dest |-> (d.dest + d.n) % 65536, n |-> n,
                                          off |-> d.off + d.n])]

\* ------------------------------------------------- Software::TWI (v1.0)
\* the legacy bus manager: every read() and write() is a frame of its own
CLOCK_STRETCHING_RETRY_MAX_v10 == 20
T1_v10 == 5
T2_v10 == 4

RECURSIVE stretch_loop_v10(_, _, _)
stretch_loop_v10(m, retry, k) ==
  IF retry < CLOCK_STRETCHING_RETRY_MAX_v10
  THEN IF retry >= k
       THEN [scl_read(scl_rise(m), 1) EXCEPT !.ok = TRUE]
       ELSE stretch_loop_v10(delayMicroseconds(scl_read(m, 0), T2_v10), retry + 1, k)
  ELSE [m EXCEPT !.ok = FALSE, !.tmo = TRUE, !.slave = SlaveInit, !.high = TRUE]

clock_stretching_v10(m) ==
  stretch_loop_v10([m EXCEPT !.nclk = @ + 1], 0, LowPolls(m))

start_condition_v10(m) ==
  LET m1 == sda_read(sda_input(m))
  IN IF m1.val = 0 THEN [m1 EXCEPT !.ok = FALSE]
     ELSE LET m2 == delayMicroseconds(sda_output(m1), T1_v10)
          IN [scl_output(m2) EXCEPT !.ok = TRUE]

stop_condition_v10(m) ==
  LET m1 == delayMicroseconds(sda_output(m), T2_v10)
      m3 == clock_stretching_v10(scl_input(m1))
  IN IF ~m3.ok THEN m3
     ELSE LET m4 == sda_read(delayMicroseconds(sda_input(delayMicroseconds(m3, T2_v10)),
                                               T2_v10))
          IN [m4 EXCEPT !.ok = (m4.val # 0)]

write_bit_v10(m, value) ==
  LET m1 == IF value THEN sda_input(m) ELSE sda_output(m)
      m2 == delayMicroseconds(scl_input(delayMicroseconds(m1, T2_v10)), T2_v10)
      m3 == clock_stretching_v10(m2)
  IN IF ~m3.ok THEN m3
     ELSE [scl_output(m3) EXCEPT !.ok = TRUE]

read_bit_v10(m) ==
  LET m1 == sda_input(m)
      m2 == scl_input(delayMicroseconds(m1, T2_v10))
      m3 == clock_stretching_v10(m2)
  IN IF ~m3.ok THEN m3
     ELSE LET m4 == sda_read(delayMicroseconds(m3, T2_v10))
          IN [scl_output(m4) EXCEPT !.ok = TRUE]

RECURSIVE write_bits_v10(_, _, _)
write_bits_v10(m, byte, i) ==
  IF i < 8
  THEN LET m1 == write_bit_v10(m, (byte \div 128) % 2 = 1)
       IN IF ~m1.ok THEN m1 ELSE write_bits_v10(m1, (byte * 2) % 256, i + 1)
  ELSE read_bit_v10(m)

\* returns ok; the out parameter nack is val
write_byte_v10(m, byte) == write_bits_v10(m, byte, 0)

RECURSIVE read_bits_v10(_, _, _)
read_bits_v10(m, ack, i) ==
  IF i < 8
  THEN LET m1 == read_bit_v10(m)
       IN IF ~m1.ok THEN m1
          ELSE read_bits_v10([m1 EXCEPT !.byte = ((m1.byte * 2) % 256) + m1.val], ack, i + 1)
  ELSE write_bit_v10(m, ~ack)

\* returns ok; the out parameter is byte
read_byte_v10(m, ack) == read_bits_v10([m EXCEPT !.byte = 0], ack, 0)

\* read(): for (i = 0; i < count; i++) ...; res = count; ok tells whether
\* the loop ran to its end
RECURSIVE read_loop_v10(_, _, _)
read_loop_v10(m, i, count) ==
  IF i < count
  THEN LET m1 == read_byte_v10(m, i + 1 # count)
       IN IF ~m1.ok THEN [m1 EXCEPT !.res = -1]
          ELSE read_loop_v10([m1 EXCEPT !.buf = Append(@, m1.byte)], i + 1, count)
  ELSE [m EXCEPT !.res = count]

\* error: stop_condition(); return (res);
error_v10(m) ==
  Only({[m1 EXCEPT !.res = m.res] : m1 \in {stop_condition_v10(m)}})

\* int read(uint8_t addr, void* buf, size_t count); return (false) is 0
TWI_read_v10(m, addr, count) ==
  LET m0 == start_condition_v10(m)
  IN IF ~m0.ok THEN [m0 EXCEPT !.res = 0]
     ELSE LET m1 == write_byte_v10(m0, Or1((addr * 2) % 256))
          IN IF ~m1.ok \/ m1.val = 1 THEN error_v10([m1 EXCEPT !.res = -1])
             ELSE error_v10(read_loop_v10(m1, 0, count))

\* write(): the bytes of the io vector; res = count;
RECURSIVE write_loop_v10(_, _, _)
write_loop_v10(m, bytes, count) ==
  IF bytes = << >> THEN [m EXCEPT !.res = count]
  ELSE LET m1 == write_byte_v10(m, Head(bytes))
       IN IF ~m1.ok \/ m1.val = 1 THEN [m1 EXCEPT !.res = -1]
          ELSE write_loop_v10(m1, Tail(bytes), count)

\* int write(uint8_t addr, iovec_t* vp)
TWI_write_v10(m, addr, vp) ==
  LET m0 == start_condition_v10(m)
  IN IF ~m0.ok THEN [m0 EXCEPT !.res = -1]
     ELSE LET m1 == write_byte_v10(m0, (addr * 2) % 256)
          IN IF ~m1.ok \/ m1.val = 1 THEN error_v10([m1 EXCEPT !.res = -1])
             ELSE IF vp = NULLVP THEN error_v10([m1 EXCEPT !.res = 0])
             ELSE error_v10(write_loop_v10(m1, Flatten(vp), Len(Flatten(vp))))

\* --------------------------------------------------- Hardware::TWI on AVR
\* status codes of the TWI unit
START == 8
REP_START == 16
ARB_LOST == 56
MT_SLA_ACK == 24
MT_SLA_NACK == 32
MT_DATA_ACK == 40
MT_DATA_NACK == 48
MR_SLA_ACK == 64
MR_SLA_NACK == 72
MR_DATA_ACK == 80
MR_DATA_NACK == 88
MASK == 248
BUS_ERROR == 0

\* what the TWI unit does during one call: its failAt-th command ends with
\* status code (0: none does), every other command with the status the bus
\* manager waits for; the addressed slave transmits the data pattern
NoFault == [failAt |-> 0, code |-> BUS_ERROR]

\* the bus manager after construction, and the log of its latest call:
\* twcr the commands written to TWCR, twsr the statuses read, want the
\* statuses waited for
AVR_TWI == [m_busy |-> FALSE, m_start |-> FALSE, twdr |-> 0,
            op |-> "none", count |-> 0, vp |-> NULLVP, start0 |-> FALSE, env |-> NoFault,
            twcr |-> << >>, twsr |-> << >>, want |-> << >>,
            ok |-> TRUE, res |-> 0, buf |-> << >>]

\* the bus manager at the entry of a call
AVR_enter(h, op, env) ==
  [h EXCEPT !.op = op, !.count = 0, !.vp = NULLVP, !.start0 = h.m_start, !.env = env,
            !.twcr = << >>, !.twsr = << >>, !.want = << >>, !.ok = TRUE, !.res = 0,
            !.buf = << >>]

\* TWCR = bits;
TWCR_set(h, bits) == [h EXCEPT !.twcr = Append(@, bits)]

\* bool iowait(uint8_t status)
iowait(h, status) ==
  LET seen == IF Len(h.twsr) + 1 = h.env.failAt THEN h.env.code ELSE status
  IN [h EXCEPT !.twsr = Append(@, seen), !.want = Append(@, status),
               !.ok = (BitAnd(seen, MASK) = status)]

\* bool acquire(), after the wait for m_busy
AVR_acquire(h) ==
  iowait(TWCR_set([h EXCEPT !.m_busy = TRUE, !.m_start = TRUE],
                  {"TWEN", "TWINT", "TWSTA"}), START)

\* bool release()
AVR_release(h) ==
  [TWCR_set([h EXCEPT !.m_start = FALSE, !.m_busy = FALSE], {"TWEN", "TWINT", "TWSTO"})
     EXCEPT !.ok = TRUE]

\* read(): while (size--) ...; return (count);
RECURSIVE AVR_read_bytes(_, _, _)
AVR_read_bytes(h, size, count) ==
  IF size = 0 THEN [h EXCEPT !.res = count]
  ELSE Only({IF ~h1.ok THEN [h1 EXCEPT !.res = -1]
             ELSE AVR_read_bytes([h1 EXCEPT !.twdr = DataByte(Len(h.buf) + 1),
                                            !.buf = Append(@, DataByte(Len(h.buf) + 1))],
                                 size - 1, count) :
             h1 \in {IF size - 1 # 0
                     THEN iowait(TWCR_set(h, {"TWEN", "TWINT", "TWEA"}), MR_DATA_ACK)
                     ELSE iowait(TWCR_set(h, {"TWEN", "TWINT"}), MR_DATA_NACK)}})

\* read(): the address byte and what follows
AVR_read_addr(h, addr, count) ==
  Only({IF ~h1.ok THEN [h1 EXCEPT !.res = -1] ELSE AVR_read_bytes(h1, count, count) :
        h1 \in {iowait(TWCR_set([h EXCEPT !.m_start = FALSE, !.twdr = Or1(addr)],
                                {"TWEN", "TWINT", "TWEA"}), MR_SLA_ACK)}})

\* int read(uint8_t addr, void* buf, size_t count); return (false) is 0
AVR_read(h, addr, count) ==
  IF ~h.m_start
  THEN Only({IF ~h1.ok THEN [h1 EXCEPT !.res = 0] ELSE AVR_read_addr(h1, addr, count) :
             h1 \in {iowait(TWCR_set(h, {"TWEN", "TWINT", "TWSTA"}), REP_START)}})
  ELSE AVR_read_addr(h, addr, count)

\* write(): the bytes of the io vector
RECURSIVE AVR_write_bytes(_, _, _)
AVR_write_bytes(h, bytes, count) ==
  IF bytes = << >> THEN [h EXCEPT !.res = count]
  ELSE Only({IF ~h1.ok THEN [h1 EXCEPT !.res = -1]
             ELSE AVR_write_bytes(h1, Tail(bytes), count) :
             h1 \in {iowait(TWCR_set([h EXCEPT !.twdr = Head(bytes)], {"TWEN", "TWINT"}),
                            MT_DATA_ACK)}})

\* write(): the address byte and what follows
AVR_write_addr(h, addr, vp) ==
  Only({IF ~h1.ok THEN [h1 EXCEPT !.res = -1]
        ELSE IF vp = NULLVP THEN [h1 EXCEPT !.res = 0]
        ELSE AVR_write_bytes(h1, Flatten(vp), Len(Flatten(vp))) :
        h1 \in {iowait(TWCR_set([h EXCEPT !.m_start = FALSE, !.twdr = addr],
                                {"TWEN", "TWINT"}), MT_SLA_ACK)}})

\* int write(uint8_t addr, iovec_t* vp)
AVR_write(h, addr, vp) ==
  IF ~h.m_start
  THEN Only({IF ~h1.ok THEN [h1 EXCEPT !.res = -1] ELSE AVR_write_addr(h1, addr, vp) :
             h1 \in {iowait(TWCR_set(h, {"TWEN", "TWINT", "TWSTA"}), REP_START)}})
  ELSE AVR_write_addr(h, addr, vp)

\* --------------------------------------------------- Hardware::TWI on SAM
\* what the TWI unit does during one call: the failAt-th wait for a status
\* flag of the call ends without the flag (retries used up, or NACK in
\* stop_condition), every other wait ends with it (0: all do)
NoStall == [failAt |-> 0]

\* the bus manager after construction, and the log of its latest call:
\* regs the writes to the registers of the unit, by the function writing;
\* by is the latest call that changed m_state
SAM_TWI == [m_busy |-> FALSE, m_state |-> "IDLE_STATE",
            op |-> "none", count |-> 0, vp |-> NULLVP, state0 |-> "IDLE_STATE",
            env |-> NoStall, regs |-> << >>, nwait |-> 0,
            ok |-> TRUE, res |-> 0, buf |-> << >>,
            by |-> [op |-> "none", vp |-> NULLVP]]

\* the bus manager at the entry of a call
SAM_enter(s, op, env) ==
  [s EXCEPT !.op = op, !.count = 0, !.vp = NULLVP, !.state0 = s.m_state, !.env = env,
            !.regs = << >>, !.nwait = 0, !.ok = TRUE, !.res = 0, !.buf = << >>]

\* m_twi->reg = val;
SAM_reg(s, reg, val, by) == [s EXCEPT !.regs = Append(@, [reg |-> reg, val |-> val, by |-> by])]

\* while ((m_twi->TWI_SR & flag) == 0) ... --retry ...: ok tells whether the
\* flag came up
SAM_wait(s) == [s EXCEPT !.nwait = s.nwait + 1, !.ok = (s.nwait + 1 # s.env.failAt)]

\* a stop_condition() that leaves m_state alone
SAM_stop_condition_keepstate(s) == SAM_wait(SAM_reg(s, "TWI_CR", "STOP", "stop_condition"))

\* bool stop_condition()
SAM_stop_condition(s) ==
  SAM_wait(SAM_reg([s EXCEPT !.m_state = "BUSY_STATE"], "TWI_CR", "STOP", "stop_condition"))

\* bool acquire(), after the wait for m_busy
SAM_acquire(s) == [s EXCEPT !.m_busy = TRUE, !.m_state = "BUSY_STATE", !.ok = TRUE]

\* a release() that leaves m_state alone
SAM_release_keepstate(s) ==
  Only({[s1 EXCEPT !.m_busy = FALSE] :
        s1 \in {IF s.m_state = "WRITE_STATE" THEN SAM_stop_condition(s) ELSE s}})

\* bool release()
SAM_release(s) ==
  Only({[s1 EXCEPT !.m_busy = FALSE, !.m_state = "IDLE_STATE"] :
        s1 \in {IF s.m_state = "WRITE_STATE" THEN SAM_stop_condition(s) ELSE s}})

\* read(): while (size--) ...; the wait for TXCOMP; return (res);
RECURSIVE SAM_read_bytes(_, _)
SAM_read_bytes(s, size) ==
  IF size = 0
  THEN Only({IF ~s1.ok THEN [s1 EXCEPT !.res = -1] ELSE [s1 EXCEPT !.res = Len(s1.buf)] :
             s1 \in {SAM_wait(s)}})
  ELSE Only({IF ~s1.ok THEN [s1 EXCEPT !.res = -1]
             ELSE SAM_read_bytes([s1 EXCEPT !.buf = Append(@, DataByte(Len(s.buf) + 1))],
                                 size - 1) :
             s1 \in {SAM_wait(IF size - 1 = 0 THEN SAM_reg(s, "TWI_CR", "STOP", "read")
                              ELSE s)}})

\* read(): the start of the read and what follows
SAM_read_start(s, addr, count) ==
  Only({IF ~s1.ok THEN [s1 EXCEPT !.res = -1] ELSE SAM_read_bytes(s1, count) :
        s1 \in {SAM_wait(SAM_reg(SAM_reg(s, "TWI_MMR", <<addr \div 2, "MREAD">>, "read"),
                                 "TWI_CR", "START", "read"))}})

\* int read(uint8_t addr, void* buf, size_t count)
SAM_read(s, addr, count) ==
  IF count = 0 THEN [s EXCEPT !.res = 0]
  ELSE IF s.m_state = "WRITE_STATE"
  THEN Only({IF ~s1.ok THEN [s1 EXCEPT !.res = -1] ELSE SAM_read_start(s1, addr, count) :
             s1 \in {SAM_stop_condition(s)}})
  ELSE SAM_read_start(s, addr, count)

\* write(): the bytes of the io vector; res counts the bytes put in TWI_THR
RECURSIVE SAM_write_bytes(_, _, _)
SAM_write_bytes(s, bytes, res) ==
  IF bytes = << >> THEN [s EXCEPT !.res = res]
  ELSE Only({IF ~s1.ok THEN [s1 EXCEPT !.res = -1]
             ELSE SAM_write_bytes(s1, Tail(bytes), res + 1) :
             s1 \in {SAM_wait(SAM_reg(s, "TWI_THR", Head(bytes), "write"))}})

\* int write(uint8_t addr, iovec_t* vp)
SAM_write(s, addr, vp) ==
  IF vp = NULLVP
  THEN Only({IF ~s1.ok THEN [s1 EXCEPT !.res = -1] ELSE [s1 EXCEPT !.res = 0] :
             s1 \in {SAM_stop_condition(SAM_reg(SAM_reg(s, "TWI_MMR", <<addr \div 2>>, "write"),
                                                "TWI_THR", 0, "write"))}})
  ELSE SAM_write_bytes([(IF s.m_state # "WRITE_STATE"
                         THEN SAM_reg(s, "TWI_MMR", <<addr \div 2>>, "write") ELSE s)
                          EXCEPT !.m_state = "WRITE_STATE"],
                       Flatten(vp), 0)

\* ----------------------------------------------------------- PCF8574
\* uint8_t a | b, and ~MASK on the 8 bits of the port
BitOr(a, b) == a + b - BitAnd(a, b)
BitTest(b, pin) == (b \div (2 ^ pin)) % 2

\* the driver after construction, and its latest call: sent the bytes passed
\* to Device::write, got the byte Device::read left in res (the pins the
\* device reported when read_ok, any value otherwise), buf the caller's
\* buffer after write(buf, size), ddr0 and port0 the fields at the entry
PCF8574_new == [m_ddr |-> 255, m_port |-> 0,
                op |-> "none", pin |-> 0, arg |-> 0, sent |-> << >>, got |-> 0,
                read_ok |-> TRUE, buf |-> << >>, res |-> 0, ddr0 |-> 255, port0 |-> 0]

\* the driver at the entry of a call
PCF_enter(p, op, pin, arg) ==
  [p EXCEPT !.op = op, !.pin = pin, !.arg = arg, !.sent = << >>, !.got = 0,
            !.read_ok = TRUE, !.buf = << >>, !.res = 0, !.ddr0 = p.m_ddr, !.port0 = p.m_port]

\* acquire(); Device::write(buf, size); release(); the results are dropped
PCF_send(p, bytes) == [p EXCEPT !.sent = @ \o bytes]

\* void ddr(uint8_t ddr)
PCF8574_ddr(p, ddr) ==
  PCF_send([p EXCEPT !.m_ddr = ddr, !.m_port = BitOr(p.m_port, ddr)],
           <<BitOr(p.m_port, ddr)>>)

\* uint8_t read(): acquire(); Device::read(&res, 1); release();
PCF8574_read(p, ok, got) ==
  [p EXCEPT !.got = got, !.read_ok = ok, !.res = BitOr(BitAnd(got, p.m_ddr), p.m_port)]

\* void write(uint8_t value)
PCF8574_write(p, value) ==
  PCF_send([p EXCEPT !.m_port = BitOr(value, p.m_ddr)], <<BitOr(value, p.m_ddr)>>)

\* void write(void* buf, size_t size)
PCF8574_write_buf(p, buf) ==
  PCF_send([p EXCEPT !.buf = [i \in 1..Len(buf) |-> BitOr(buf[i], p.m_ddr)]],
           [i \in 1..Len(buf) |-> BitOr(buf[i], p.m_ddr)])

\* GPIO<PIN>::MASK
GPIO_MASK(pin) == 2 ^ BitAnd(pin, 7)

\* GPIO<PIN>::input() and output()
GPIO_input(p, pin) == PCF8574_ddr(p, BitOr(p.m_ddr, GPIO_MASK(pin)))
GPIO_output(p, pin) == PCF8574_ddr(p, BitAnd(p.m_ddr, 255 - GPIO_MASK(pin)))

\* bool GPIO<PIN>::read(); res is 1 for true
GPIO_read(p, pin, ok, got) ==
  IF BitAnd(p.m_ddr, GPIO_MASK(pin)) # 0
  THEN Only({[p1 EXCEPT !.res = IF BitAnd(p1.res, GPIO_MASK(pin)) # 0 THEN 1 ELSE 0] :
             p1 \in {PCF8574_read(p, ok, got)}})
  ELSE [p EXCEPT !.res = IF BitAnd(p.m_port, GPIO_MASK(pin)) # 0 THEN 1 ELSE 0]

\* void GPIO<PIN>::write(int value)
GPIO_write(p, pin, value) ==
  PCF8574_write(p, IF value # 0 THEN BitOr(p.m_port, GPIO_MASK(pin))
                   ELSE BitAnd(p.m_port, 255 - GPIO_MASK(pin)))

\* ----------------------------------------------------------- BMP085
\* The driver keeps the command of the conversion it asked for in m_cmd;
\* the calls of the bus manager are logged in bus, their outcomes (acq,
\* rel, the count read) are inputs.  The compensation arithmetic on the
\* raw samples does not touch m_cmd and is left out.
TEMP_CONV_MS == 5
PRESSURE_CONV_MS == <<5, 8, 14, 26>>
COEFF_REG == 170
CMD_REG == 244
RES_REG == 246
TEMP_CONV_CMD == 46
PRESSURE_CONV_CMD == 52
\* sizeof(param_t): eleven 16-bit coefficients
PARAM_SIZE == 22

\* BMP085(TWI& twi), with no call made yet
BMP085_new == [m_mode |-> 0, m_cmd |-> 0, m_start |-> 0,
               op |-> "none", cmd0 |-> 0, bus |-> << >>, waited |-> 0, res |-> FALSE]

\* the driver at the entry of a call
BMP_enter(b, op) ==
  [b EXCEPT !.op = op, !.cmd0 = b.m_cmd, !.bus = << >>, !.waited = 0, !.res = FALSE]

\* one call of the TWI::Device: acquire(), write(buf, size), read(buf, size), release()
BMP_bus(b, call, bytes) == [b EXCEPT !.bus = Append(@, [call |-> call, bytes |-> bytes])]

\* bool begin(Mode mode)
BMP085_begin(b, mode, acq, rel, n) ==
  LET b1 == BMP_bus([b EXCEPT !.m_mode = mode], "acquire", << >>)
      b2 == BMP_bus(BMP_bus(BMP_bus(b1, "write", <<COEFF_REG>>), "read", <<n>>), "release", << >>)
  IN  IF ~acq THEN b1
      ELSE IF ~rel THEN b2
      ELSE IF n # PARAM_SIZE THEN b2
      ELSE [b2 EXCEPT !.res = TRUE]

\* bool sample_temperature_request()
sample_temperature_request(b, acq, rel, now) ==
  IF b.m_cmd # 0 THEN b
  ELSE LET b1 == BMP_bus([b EXCEPT !.m_cmd = TEMP_CONV_CMD], "acquire", << >>)
           b2 == BMP_bus(BMP_bus(b1, "write", <<CMD_REG, TEMP_CONV_CMD>>), "release", << >>)
       IN  IF ~acq THEN b1
           ELSE IF ~rel THEN b2
           ELSE [b2 EXCEPT !.m_start = now, !.res = TRUE]

\* read_temperature() that leaves m_cmd as it was
read_temperature_keepcmd(b, acq, rel, now) ==
  IF b.m_cmd # TEMP_CONV_CMD THEN b
  ELSE LET run == (now - b.m_start) % 65536
           b1 == BMP_bus([b EXCEPT !.waited = IF run < TEMP_CONV_MS THEN TEMP_CONV_MS - run ELSE 0],
                         "acquire", << >>)
           b2 == BMP_bus(BMP_bus(BMP_bus(b1, "write", <<RES_REG>>), "read", <<2>>), "release", << >>)
       IN  IF ~acq THEN b1
           ELSE IF ~rel THEN b2
           ELSE [b2 EXCEPT !.res = TRUE]

\* bool read_temperature()
read_temperature(b, acq, rel, now) ==
  IF b.m_cmd # TEMP_CONV_CMD THEN b
  ELSE LET run == (now - b.m_start) % 65536
           b1 == BMP_bus([b EXCEPT !.m_cmd = 0,
                                   !.waited = IF run < TEMP_CONV_MS THEN TEMP_CONV_MS - run ELSE 0],
                         "acquire", << >>)
           b2 == BMP_bus(BMP_bus(BMP_bus(b1, "write", <<RES_REG>>), "read", <<2>>), "release", << >>)
       IN  IF ~acq THEN b1
           ELSE IF ~rel THEN b2
           ELSE [b2 EXCEPT !.res = TRUE]

\* PRESSURE_CONV_CMD + (m_mode << 6), in the uint8_t m_cmd
pressure_cmd(mode) == (PRESSURE_CONV_CMD + mode * 64) % 256

\* bool sample_pressure_request()
sample_pressure_request(b, acq, rel, now) ==
  IF b.m_cmd # 0 THEN b
  ELSE LET b1 == BMP_bus(b, "acquire", << >>)
           b2 == BMP_bus(BMP_bus([b1 EXCEPT !.m_cmd = pressure_cmd(b.m_mode)],
                                 "write", <<CMD_REG, pressure_cmd(b.m_mode)>>), "release", << >>)
       IN  IF ~acq THEN b1
           ELSE IF ~rel THEN b2
           ELSE [b2 EXCEPT !.m_start = now, !.res = TRUE]

\* bool read_pressure()
read_pressure(b, acq, rel, now) ==
  IF b.m_cmd # pressure_cmd(b.m_mode) THEN b
  ELSE LET run == (now - b.m_start) % 65536
           ms == PRESSURE_CONV_MS[b.m_mode + 1]
           b1 == BMP_bus([b EXCEPT !.m_cmd = 0, !.waited = IF run < ms THEN ms - run ELSE 0],
                         "acquire", << >>)
           b2 == BMP_bus(BMP_bus(BMP_bus(b1, "write", <<RES_REG>>), "read", <<3>>), "release", << >>)
       IN  IF ~acq THEN b1
           ELSE IF ~rel THEN b2
           ELSE [b2 EXCEPT !.res = TRUE]

\* -------------------------------------------------------------- bcd_t
\* bcd_t(), with no conversion made yet
bcd_new == [m_value |-> 0, op |-> "none", value |-> 0, made |-> "default", out |-> 0]

\* while (low > 9) { high += 0x10; low -= 10; }  m_value = high + low;
RECURSIVE bcd_loop(_, _)
bcd_loop(high, low) ==
  IF low > 9 THEN bcd_loop((high + 16) % 256, low - 10)
  ELSE (high + low) % 256

\* a constructor that stores the value as it is
bcd_t_binary(value) == value

\* bcd_t(uint8_t value)
bcd_t(value) == bcd_loop(0, value)

\* operator uint8_t()
bcd_uint8_t(m_value) ==
  LET high == m_value \div 16
      low == m_value % 16
  IN  ((high * 8) + (high * 2) + low) % 256

\* ------------------------------------------------------------------ state
VARIABLES
  m_busy,    \* TWI::m_busy, the device driver semaphore
  m_start,   \* Software::TWI::m_start
  m_sda,     \* drive of the data pin: "in" released, "out" driven low
  m_scl,     \* drive of the clock pin
  scl_high,  \* the clock line is high
  slave,     \* the devices on the bus
  pc,        \* position of each task: "idle", "waiting" (in acquire), "held",
             \* "delayed" (in the retry loop of a driver function)
  acquired,  \* what the acquire() of the running transaction returned
  prev,      \* the call before the latest one: operation and success
  last,      \* the latest call of the bus manager: arguments and results
  trace,     \* the line operations of the latest call
  obs,       \* what the slave saw on the bus during the latest call
  drv,       \* the driver function each task is in: arguments and locals
  avr,       \* Hardware::TWI on AVR: its fields, its registers, its latest call
  sam,       \* Hardware::TWI on SAM: its fields, its registers, its latest call
  pcf,       \* the PCF8574 driver: its fields and its latest call
  bmp,       \* the BMP085 driver: its fields and its latest call
  bcd        \* a bcd_t value: its byte and its latest conversion

\* the software bus manager with its bus and its callers
core == <<m_busy, m_start, m_sda, m_scl, scl_high, slave, pc, acquired, prev, last, trace, obs, drv>>
\* the other bus managers and device drivers
ext == <<avr, sam, pcf, bmp, bcd>>
\* the others of each
notAvr == <<sam, pcf, bmp, bcd>>
notSam == <<avr, pcf, bmp, bcd>>
notPcf == <<avr, sam, bmp, bcd>>
notBmp == <<avr, sam, pcf, bcd>>
notBcd == <<avr, sam, pcf, bmp>>
vars == <<core, ext>>

NoCall == [op |-> "none", task |-> 0, waited |-> FALSE, dev |-> 0, addr |-> 0, count |-> 0,
           vp |-> NULLVP,
           env |-> NoEnv, res |-> 0, ok |-> TRUE, buf |-> << >>, tmo |-> FALSE,
           start0 |-> FALSE, sda0 |-> "in", scl0 |-> "in", high0 |-> TRUE,
           busy0 |-> FALSE, slave0 |-> SlaveInit, calls |-> << >>, again |-> FALSE]

\* no driver function has been called
NoDrv == [fn |-> "none", dest |-> 0, count |-> 0, page |-> 0, retry |-> 0, res |-> 0,
          s |-> 0, n |-> 0, off |-> 0, chunks |-> << >>, done |-> FALSE]

\* the machine record at the entry of a call
Enter(env) ==
  [sda |-> m_sda, scl |-> m_scl, high |-> scl_high, slave |-> slave,
   busy |-> m_busy, start |-> m_start, tr |-> << >>, obs |-> << >>, nclk |-> 0, env |-> env,
   ok |-> TRUE, val |-> 0, byte |-> 0, buf |-> << >>, res |-> 0, tmo |-> FALSE,
   calls |-> << >>, again |-> FALSE, yielded |-> FALSE]

\* the state at the return of a call
Leave(m, call) ==
  /\ m_busy' = m.busy
  /\ m_start' = m.start
  /\ m_sda' = m.sda
  /\ m_scl' = m.scl
  /\ scl_high' = m.high
  /\ slave' = m.slave
  /\ trace' = m.tr
  /\ obs' = m.obs
  /\ last' = [call EXCEPT !.env = m.env, !.res = m.res, !.ok = m.ok, !.buf = m.buf,
                          !.tmo = m.tmo, !.start0 = m_start, !.sda0 = m_sda,
                          !.scl0 = m_scl, !.high0 = scl_high, !.busy0 = m_busy,
                          !.slave0 = slave, !.calls = m.calls, !.again = m.again]

\* no call has returned whose result the caller has not taken yet
Running == last.op = "none"

\* Software::TWI() and TWI(): both pins released, bus free; m_start is not
\* initialized by the constructor
Init ==
  /\ m_busy = FALSE
  /\ m_start \in BOOLEAN
  /\ m_sda = "in"
  /\ m_scl = "in"
  /\ scl_high = TRUE
  /\ slave = SlaveInit
  /\ pc = [t \in Tasks |-> "idle"]
  /\ acquired = FALSE
  /\ prev = [op |-> "none", ok |-> TRUE]
  /\ last = NoCall
  /\ trace = << >>
  /\ obs = << >>
  /\ drv = [t \in Tasks |-> NoDrv]
  /\ avr = AVR_TWI
  /\ sam = SAM_TWI
  /\ pcf = PCF8574_new
  /\ bmp = BMP085_new
  /\ bcd = bcd_new

\* acquire(): while (m_busy) yield();
AcquireWait(t) ==
  /\ Running
  /\ pc[t] \in {"idle", "waiting"}
  /\ m_busy
  /\ pc' = [pc EXCEPT ![t] = "waiting"]
  /\ UNCHANGED <<m_busy, m_start, m_sda, m_scl, scl_high, slave, acquired, prev, last, trace, obs, drv, ext>>

\* acquire(): the bus is free: take it and generate the start condition
AcquireGuard_nowait(t) == TRUE
AcquireGuard(t) == ~m_busy

Acquire(t) ==
  /\ Running
  /\ pc[t] \in {"idle", "waiting"}
  /\ AcquireGuard(t)
  /\ \E env \in AcquireEnvs :
       LET m == TWI_acquire(Enter(env))
       IN /\ acquired' = m.ok
          /\ Leave(m, [NoCall EXCEPT !.op = "acquire", !.task = t,
                                     !.waited = (pc[t] = "waiting")])
  /\ pc' = [pc EXCEPT ![t] = "held"]
  /\ UNCHANGED <<prev, drv, ext>>

\* Device::read(buf, count) -> read(m_addr, buf, count)
Read(t, Args) ==
  /\ Running
  /\ pc[t] = "held"
  /\ \E x \in Args :
       LET m == TWI_read(Enter(x.env), Device_addr(x.a), x.count)
       IN Leave(m, [NoCall EXCEPT !.op = "read", !.task = t, !.dev = x.a,
                                  !.addr = Device_addr(x.a), !.count = x.count])
  /\ UNCHANGED <<pc, acquired, prev, drv, ext>>

\* Device::write(vp) -> write(m_addr, vp)
Write(t, Args) ==
  /\ Running
  /\ pc[t] = "held"
  /\ \E x \in Args :
       LET m == TWI_write(Enter(x.env), Device_addr(x.a), x.vp)
       IN Leave(m, [NoCall EXCEPT !.op = "write", !.task = t, !.dev = x.a,
                                  !.addr = Device_addr(x.a), !.vp = x.vp])
  /\ UNCHANGED <<pc, acquired, prev, drv, ext>>

\* release()
Release(t) ==
  /\ Running
  /\ pc[t] = "held"
  /\ \E env \in ReleaseEnvs :
       LET m == TWI_release(Enter(env))
       IN Leave(m, [NoCall EXCEPT !.op = "release", !.task = t])
  /\ pc' = [pc EXCEPT ![t] = "idle"]
  /\ UNCHANGED <<acquired, prev, drv, ext>>

\* the caller takes the result of the call; the log of the call is dropped
Return(t) ==
  /\ ~Running
  /\ last.task = t
  /\ prev' = [op |-> last.op, ok |-> last.ok /\ last.res >= 0]
  /\ last' = NoCall
  /\ trace' = << >>
  /\ obs' = << >>
  /\ UNCHANGED <<m_busy, m_start, m_sda, m_scl, scl_high, slave, pc, acquired, drv, ext>>

\* cooperative tasks sharing the bus manager
TaskRead(t) == Read(t, TaskReadArgs)
TaskWrite(t) == Write(t, TaskWriteArgs)

Next ==
  \E t \in Tasks :
    \/ AcquireWait(t)
    \/ Acquire(t)
    \/ TaskRead(t)
    \/ TaskWrite(t)
    \/ Release(t)
    \/ Return(t)

Spec == Init /\ [][Next]_vars

\* the cooperative scheduler runs every task again and again: a task that
\* spins in acquire() tests m_busy again after each yield(), and a call that
\* has returned hands its result to the caller
AcquireFromWait(t) == pc[t] = "waiting" /\ Acquire(t)
Fairness == \A t \in Tasks : WF_vars(AcquireFromWait(t)) /\ WF_vars(Return(t))
SpecFair == Init /\ [][Next]_vars /\ Fairness

\* one task on the instrumented bus
BusRead == Read(1, ReadArgs)
BusWrite == Write(1, WriteArgs)
\* the Scanner sketch: acquire(); write(NULL); release() for every address
BusProbe == prev.op = "acquire" /\ Write(1, ProbeArgs)
\* the PCF8574 pattern: acquire(); read(&res, 1); release() for every address
BusPoll == prev.op = "acquire" /\ Read(1, PollArgs)
\* the PCF8574 pattern again: the pins of the port read as any value
BusFetch == prev.op = "acquire" /\ Read(1, FetchArgs)

NextBus ==
  \/ Acquire(1)
  \/ BusRead
  \/ BusWrite
  \/ BusProbe
  \/ BusPoll
  \/ BusFetch
  \/ Release(1)
  \/ Return(1)

SpecBus == Init /\ [][NextBus]_vars

\* a task calls DS1307::read_ram; acquire() inside it waits for the bus
ReadRam(t) ==
  /\ Running
  /\ pc[t] \in {"idle", "waiting"}
  /\ AcquireGuard(t)
  /\ \E x \in ReadRamArgs :
       LET m == DS1307_read_ram(Enter(NoEnv), x.addr, x.count, x.env)
       IN /\ acquired' = TWI_acquire(Call(Enter(NoEnv), x.env.acq)).ok
          /\ Leave(m, [NoCall EXCEPT !.op = "read_ram", !.task = t, !.dev = DS1307_ADDR,
                                     !.addr = x.addr, !.count = x.count,
                                     !.waited = (pc[t] = "waiting")])
  /\ pc' = [pc EXCEPT ![t] = "idle"]
  /\ UNCHANGED <<prev, drv, ext>>

\* a task calls AT24CXX::read; the environments of a retry iteration: of
\* acquire(), the address write, the data read, the release() after the read
\* and the release() at the end of the iteration
Held == [NoEnv EXCEPT !.held = TRUE]
Expired == [NoEnv EXCEPT !.at = 17, !.len = 25, !.rdata = Bytes(1, MaxCount)]
Served == [NoEnv EXCEPT !.rdata = Bytes(1, MaxCount)]
Refused == [NoEnv EXCEPT !.nackAt = 1]
IterEnvs ==
  {[acq |-> NoEnv, wr |-> NoEnv, rd |-> Served, rel |-> NoEnv, rel2 |-> NoEnv],
   [acq |-> NoEnv, wr |-> NoEnv, rd |-> Served, rel |-> Held, rel2 |-> NoEnv],
   [acq |-> Held, wr |-> NoEnv, rd |-> Served, rel |-> NoEnv, rel2 |-> NoEnv],
   [acq |-> NoEnv, wr |-> Refused, rd |-> Served, rel |-> NoEnv, rel2 |-> NoEnv],
   [acq |-> NoEnv, wr |-> Refused, rd |-> Served, rel |-> NoEnv, rel2 |-> Held],
   [acq |-> NoEnv, wr |-> NoEnv, rd |-> Expired, rel |-> Held, rel2 |-> Held],
   [acq |-> NoEnv, wr |-> NoEnv, rd |-> Expired, rel |-> Held, rel2 |-> NoEnv],
   [acq |-> NoEnv, wr |-> NoEnv, rd |-> Expired, rel |-> NoEnv, rel2 |-> NoEnv]}
EepromAddrs == {0, 4660}
EepromReadArgs == {[src |-> a, count |-> n] : a \in EepromAddrs, n \in 1..MaxCount}

\* the task that reads the EEPROM (loop() of the Multitasking sketch)
Reader == 1

\* what the latest acquire() of the driver function returned
LastAcquire(m) ==
  LET as == SelectSeq(m.calls, LAMBDA c : c.op = "acquire")
  IN as # << >> /\ as[Len(as)].ok

\* a task calls AT24CXX::read, or runs it on after delay(RETRY_DELAY_MS):
\* one pass through the body of the retry loop and } while (--retry);
\* acquire() inside it waits for the bus
EepromReadCalls(t) ==
  IF pc[t] = "delayed"
  THEN {d \in {drv[t]} : d.fn = "eeprom_read"}
  ELSE {[NoDrv EXCEPT !.fn = "eeprom_read", !.dest = x.src, !.count = x.count,
                      !.retry = RETRY_MAX] : x \in EepromReadArgs}

EepromRead(t) ==
  /\ t = Reader
  /\ Running
  /\ pc[t] \in {"idle", "waiting", "delayed"}
  /\ AcquireGuard(t)
  /\ \E d \in EepromReadCalls(t), e \in IterEnvs :
       \E m \in {AT24CXX_read_body(Enter(NoEnv), d.dest, d.count, e)} :
         LET loops == m.again /\ d.retry - 1 # 0
             res == IF m.again THEN -1 ELSE m.res
         IN /\ acquired' = LastAcquire(m)
            /\ Leave([m EXCEPT !.res = res, !.again = loops],
                     [NoCall EXCEPT !.op = "eeprom_read", !.task = t, !.dev = AT24CXX_ADDR,
                                    !.addr = d.dest, !.count = d.count,
                                    !.waited = (pc[t] = "waiting")])
            /\ pc' = [pc EXCEPT ![t] = IF loops THEN "delayed" ELSE "idle"]
            /\ drv' = [drv EXCEPT ![t] = IF loops THEN [d EXCEPT !.retry = d.retry - 1]
                                         ELSE NoDrv]
  /\ UNCHANGED <<prev, ext>>

\* tasks that use the bus through the device drivers only: the first one
\* reads the EEPROM, every task reads the clock
NextDrv ==
  \E t \in Tasks :
    \/ AcquireWait(t)
    \/ ReadRam(t)
    \/ EepromRead(t)
    \/ Return(t)

SpecDrv == Init /\ [][NextDrv]_vars

\* the task that writes the EEPROM (logger::loop of the Multitasking sketch)
Writer == NTasks
PageSizes == {1, 2, 4}
EepromWriteArgs == {[dest |-> a, count |-> n, page |-> g] :
                      a \in {0, 1, 65535}, n \in {1, 3}, g \in PageSizes}
WriteIterEnvs ==
  {[acq |-> NoEnv, wr |-> NoEnv, rel |-> NoEnv],
   [acq |-> NoEnv, wr |-> NoEnv, rel |-> Held],
   [acq |-> Held, wr |-> NoEnv, rel |-> NoEnv],
   [acq |-> NoEnv, wr |-> Refused, rel |-> NoEnv],
   [acq |-> NoEnv, wr |-> Refused, rel |-> Held]}

\* a task calls AT24CXX::write, or runs it on: one pass through the body of
\* the retry loop and what follows it up to the next pass; acquire() inside
\* it waits for the bus
EepromWriteCalls(t) ==
  IF pc[t] \in {"delayed", "running"}
  THEN {d \in {drv[t]} : d.fn = "eeprom_write"}
  ELSE {[NoDrv EXCEPT !.fn = "eeprom_write", !.dest = x.dest, !.count = x.count,
                      !.page = x.page, !.s = x.count,
                      !.n = first_chunk(x.dest, x.count, x.page), !.retry = RETRY_MAX,
                      !.res = -1,
                      !.chunks = <<[dest |-> x.dest, n |-> first_chunk(x.dest, x.count, x.page),
                                    off |-> 0]>>] : x \in EepromWriteArgs}

EepromWrite(t) ==
  /\ t = Writer
  /\ Running
  /\ pc[t] \in {"idle", "waiting", "delayed", "running"}
  /\ AcquireGuard(t)
  /\ \E d \in EepromWriteCalls(t), e \in WriteIterEnvs :
       \E m \in {AT24CXX_write_body(Enter(NoEnv), chunk_vec(d, Bytes(1, d.count)), d.res, e)} :
         \E d1 \in {AT24CXX_write_next(d, m)} :
           /\ acquired' = LastAcquire(m)
           /\ Leave([m EXCEPT !.res = d1.res, !.again = ~d1.done],
                    [NoCall EXCEPT !.op = "eeprom_write", !.task = t, !.dev = AT24CXX_ADDR,
                                   !.addr = d.dest, !.count = d.n,
                                   !.vp = chunk_vec(d, Bytes(1, d.count)),
                                   !.waited = (pc[t] = "waiting")])
           /\ pc' = [pc EXCEPT ![t] = IF d1.done THEN "idle"
                                      ELSE IF m.yielded \/ m.busy THEN "delayed"
                                      ELSE "running"]
           /\ drv' = [drv EXCEPT ![t] = d1]
  /\ UNCHANGED <<prev, ext>>

\* the logger task writes the EEPROM while the other tasks wait for the bus
NextEeprom ==
  \E t \in Tasks :
    \/ AcquireWait(t)
    \/ EepromWrite(t)
    \/ Return(t)

SpecEeprom == Init /\ [][NextEeprom]_vars

\* ---- one caller on Hardware::TWI (AVR)
AvrFaults == {NoFault} \cup
             {[failAt |-> k, code |-> c] : k \in 1..(MaxCount + 2),
                                           c \in {BUS_ERROR, ARB_LOST, MR_SLA_NACK,
                                                  MT_SLA_NACK, MT_DATA_NACK}}
AvrVecs == {NULLVP, Fill(<<1>>, 1), Fill(<<1, 1>>, 1)}

\* acquire(): the bus manager is free
AvrAcquire ==
  /\ ~avr.m_busy
  /\ \E e \in {f \in AvrFaults : f.failAt <= 1} :
       avr' = AVR_acquire(AVR_enter(avr, "acquire", e))
  /\ UNCHANGED <<core, notAvr>>

\* read(m_addr, buf, count) between acquire() and release()
AvrRead ==
  /\ avr.m_busy
  /\ \E a \in DataAddrs, n \in 0..MaxCount, e \in AvrFaults :
       avr' = AVR_read([AVR_enter(avr, "read", e) EXCEPT !.count = n], Device_addr(a), n)
  /\ UNCHANGED <<core, notAvr>>

\* write(m_addr, vp) between acquire() and release()
AvrWrite ==
  /\ avr.m_busy
  /\ \E a \in DataAddrs, vp \in AvrVecs, e \in AvrFaults :
       avr' = AVR_write([AVR_enter(avr, "write", e) EXCEPT !.vp = vp], Device_addr(a), vp)
  /\ UNCHANGED <<core, notAvr>>

\* release()
AvrRelease ==
  /\ avr.m_busy
  /\ avr' = AVR_release(AVR_enter(avr, "release", NoFault))
  /\ UNCHANGED <<core, notAvr>>

NextAvr ==
  \/ AvrAcquire
  \/ AvrRead
  \/ AvrWrite
  \/ AvrRelease

SpecAvr == Init /\ [][NextAvr]_vars

\* ---- one caller on Hardware::TWI (SAM)
SamStalls == {[failAt |-> k] : k \in 0..(MaxCount + 2)}

\* the call that changed m_state last
SAM_leave(s0, s) ==
  IF s.m_state # s0.m_state THEN [s EXCEPT !.by = [op |-> s.op, vp |-> s.vp]] ELSE s

\* acquire(): the bus manager is free
SamAcquire ==
  /\ ~sam.m_busy
  /\ sam' = SAM_leave(sam, SAM_acquire(SAM_enter(sam, "acquire", NoStall)))
  /\ UNCHANGED <<core, notSam>>

\* read(m_addr, buf, count) between acquire() and release()
SamRead ==
  /\ sam.m_busy
  /\ \E a \in DataAddrs, n \in 0..MaxCount, e \in SamStalls :
       sam' = SAM_leave(sam, SAM_read([SAM_enter(sam, "read", e) EXCEPT !.count = n],
                                      Device_addr(a), n))
  /\ UNCHANGED <<core, notSam>>

\* write(m_addr, vp) between acquire() and release()
SamWrite ==
  /\ sam.m_busy
  /\ \E a \in DataAddrs, vp \in AvrVecs \cup {<<Sentinel>>}, e \in SamStalls :
       sam' = SAM_leave(sam, SAM_write([SAM_enter(sam, "write", e) EXCEPT !.vp = vp],
                                       Device_addr(a), vp))
  /\ UNCHANGED <<core, notSam>>

\* release()
SamRelease ==
  /\ sam.m_busy
  /\ \E e \in {x \in SamStalls : x.failAt <= 1} :
       sam' = SAM_leave(sam, SAM_release(SAM_enter(sam, "release", e)))
  /\ UNCHANGED <<core, notSam>>

NextSam ==
  \/ SamAcquire
  \/ SamRead
  \/ SamWrite
  \/ SamRelease

SpecSam == Init /\ [][NextSam]_vars

\* ---- one caller on the legacy bus manager, Software::TWI (v1.0)
LegacyEnvs == {NoEnv, [NoEnv EXCEPT !.held = TRUE], [NoEnv EXCEPT !.nackAt = 1]} \cup
              {[NoEnv EXCEPT !.at = a, !.len = l] :
                 a \in {0, 8, 9, 17, 18, 19}, l \in {CLOCK_STRETCHING_RETRY_MAX_v10 - 1,
                                                     CLOCK_STRETCHING_RETRY_MAX_v10}}

\* read(addr, buf, count)
LegacyRead ==
  /\ Running
  /\ \E a \in DataAddrs, n \in 0..MaxCount, e \in LegacyEnvs :
       LET m == TWI_read_v10(Enter([e EXCEPT !.rdata = Bytes(1, n)]), a, n)
       IN Leave(m, [NoCall EXCEPT !.op = "read_v10", !.task = 1, !.dev = a, !.addr = a,
                                  !.count = n])
  /\ UNCHANGED <<pc, acquired, prev, drv, ext>>

\* write(addr, vp)
LegacyWrite ==
  /\ Running
  /\ \E a \in DataAddrs, vp \in AvrVecs, e \in LegacyEnvs :
       LET m == TWI_write_v10(Enter(e), a, vp)
       IN Leave(m, [NoCall EXCEPT !.op = "write_v10", !.task = 1, !.dev = a, !.addr = a,
                                  !.vp = vp])
  /\ UNCHANGED <<pc, acquired, prev, drv, ext>>

NextLegacy ==
  \/ LegacyRead
  \/ LegacyWrite
  \/ Return(1)

SpecLegacy == Init /\ [][NextLegacy]_vars

\* ---- a sketch using the PCF8574 driver and its pins
PcfBytes == {0, 15, 129, 255}
PcfPins == {0, 3, 7}

PcfDdr ==
  /\ \E d \in PcfBytes : pcf' = PCF8574_ddr(PCF_enter(pcf, "ddr", 0, d), d)
  /\ UNCHANGED <<core, notPcf>>

PcfRead ==
  /\ \E ok \in BOOLEAN, b \in PcfBytes :
       pcf' = PCF8574_read(PCF_enter(pcf, "read", 0, 0), ok, b)
  /\ UNCHANGED <<core, notPcf>>

PcfWrite ==
  /\ \E v \in PcfBytes : pcf' = PCF8574_write(PCF_enter(pcf, "write", 0, v), v)
  /\ UNCHANGED <<core, notPcf>>

PcfWriteBuf ==
  /\ \E buf \in {<<0>>, <<15, 129>>} :
       pcf' = PCF8574_write_buf(PCF_enter(pcf, "write_buf", 0, 0), buf)
  /\ UNCHANGED <<core, notPcf>>

PcfGpioInput ==
  /\ \E pin \in PcfPins : pcf' = GPIO_input(PCF_enter(pcf, "gpio_input", pin, 0), pin)
  /\ UNCHANGED <<core, notPcf>>

PcfGpioOutput ==
  /\ \E pin \in PcfPins : pcf' = GPIO_output(PCF_enter(pcf, "gpio_output", pin, 0), pin)
  /\ UNCHANGED <<core, notPcf>>

PcfGpioRead ==
  /\ \E pin \in PcfPins, ok \in BOOLEAN, b \in PcfBytes :
       pcf' = GPIO_read(PCF_enter(pcf, "gpio_read", pin, 0), pin, ok, b)
  /\ UNCHANGED <<core, notPcf>>

PcfGpioWrite ==
  /\ \E pin \in PcfPins, v \in 0..1 :
       pcf' = GPIO_write(PCF_enter(pcf, "gpio_write", pin, v), pin, v)
  /\ UNCHANGED <<core, notPcf>>

NextPcf ==
  \/ PcfDdr
  \/ PcfRead
  \/ PcfWrite
  \/ PcfWriteBuf
  \/ PcfGpioInput
  \/ PcfGpioOutput
  \/ PcfGpioRead
  \/ PcfGpioWrite

SpecPcf == Init /\ [][NextPcf]_vars

\* ----------------------------------------------------- BMP085: the calls
\* the modes of enum Mode, and the values millis() returns
BmpModes == {0, 1, 3}
BmpTimes == {0, 3, 30}

BmpBegin ==
  /\ \E mode \in BmpModes, acq \in BOOLEAN, rel \in BOOLEAN, n \in {0, PARAM_SIZE} :
       bmp' = BMP085_begin(BMP_enter(bmp, "begin"), mode, acq, rel, n)
  /\ UNCHANGED <<core, notBmp>>

BmpSampleTemperatureRequest ==
  /\ \E acq \in BOOLEAN, rel \in BOOLEAN, now \in BmpTimes :
       bmp' = sample_temperature_request(BMP_enter(bmp, "sample_temperature_request"), acq, rel, now)
  /\ UNCHANGED <<core, notBmp>>

BmpReadTemperature ==
  /\ \E acq \in BOOLEAN, rel \in BOOLEAN, now \in BmpTimes :
       bmp' = read_temperature(BMP_enter(bmp, "read_temperature"), acq, rel, now)
  /\ UNCHANGED <<core, notBmp>>

BmpSamplePressureRequest ==
  /\ \E acq \in BOOLEAN, rel \in BOOLEAN, now \in BmpTimes :
       bmp' = sample_pressure_request(BMP_enter(bmp, "sample_pressure_request"), acq, rel, now)
  /\ UNCHANGED <<core, notBmp>>

BmpReadPressure ==
  /\ \E acq \in BOOLEAN, rel \in BOOLEAN, now \in BmpTimes :
       bmp' = read_pressure(BMP_enter(bmp, "read_pressure"), acq, rel, now)
  /\ UNCHANGED <<core, notBmp>>

NextBmp ==
  \/ BmpBegin
  \/ BmpSampleTemperatureRequest
  \/ BmpReadTemperature
  \/ BmpSamplePressureRequest
  \/ BmpReadPressure

SpecBmp == Init /\ [][NextBmp]_vars

\* ------------------------------------------------------ bcd_t: the calls
\* the values of a uint8_t
Uint8 == 0..255

\* rtc.seconds = now.tm_sec: a bcd_t constructed from an integer
BcdConstruct ==
  /\ \E value \in Uint8 :
       bcd' = [m_value |-> bcd_t(value), op |-> "bcd_t", value |-> value,
               made |-> "value", out |-> 0]
  /\ UNCHANGED <<core, notBcd>>

\* read_ram(0, &rtc, sizeof(rtc)): the byte of a bcd_t filled in from the device
BcdLoad ==
  /\ \E byte \in Uint8 :
       bcd' = [m_value |-> byte, op |-> "read_ram", value |-> byte,
               made |-> "raw", out |-> 0]
  /\ UNCHANGED <<core, notBcd>>

\* now.tm_sec = rtc.seconds: the bcd_t converted to an integer
BcdConvert ==
  /\ bcd' = [bcd EXCEPT !.op = "uint8_t", !.out = bcd_uint8_t(bcd.m_value)]
  /\ UNCHANGED <<core, notBcd>>

NextBcd == BcdConstruct \/ BcdLoad \/ BcdConvert

SpecBcd == Init /\ [][NextBcd]_vars

\* ---------------------------------------------------- reading the logs

\* the master's drive of the data line before the i-th line operation
SdaBefore(i) == IF i = 1 THEN last.sda0 ELSE trace[i - 1].sda

\* the master pulls the data line low while it leaves the clock released
StartAt(i) == trace[i].op = "sda_out" /\ SdaBefore(i) = "in" /\ trace[i].scl = "in"

\* the master releases the data line while it leaves the clock released
StopAt(i) == trace[i].op = "sda_in" /\ SdaBefore(i) = "out" /\ trace[i].scl = "in"

\* the clock-high phases of the call: the polls that found the clock high
PulseIdx == {i \in 1..Len(trace) : trace[i].op = "poll" /\ trace[i].lvl = 1}
Pulses == SelectSeq(trace, LAMBDA e : e.op = "poll" /\ e.lvl = 1)
FirstPulse == CHOOSE i \in PulseIdx : \A j \in PulseIdx : i <= j

\* the longest run of polls that found the clock low ending at i
RECURSIVE LowRun(_)
LowRun(i) ==
  IF i = 0 THEN 0
  ELSE IF trace[i].op = "poll" /\ trace[i].lvl = 0 THEN 1 + LowRun(i - 1) ELSE 0

RECURSIVE PollRun(_)
PollRun(i) ==
  IF i = 0 THEN 0
  ELSE IF trace[i].op = "poll" THEN 1 + PollRun(i - 1) ELSE 0

ObsKinds == [i \in 1..Len(obs) |-> obs[i].k]
Holders == {t \in Tasks : pc[t] = "held"}

\* ----------------------------------------------------------------- claims

\* C1: mutual exclusion: at most one task is between a return from acquire()
\* and its release(), the holder has the busy flag set, and a task returns
\* from acquire() only from a state where the flag is clear and nobody holds
MutualExclusion ==
  /\ [](Cardinality(Holders) <= 1 /\ (Holders # {} => m_busy))
  /\ [][\A t \in Tasks : (pc[t] # "held" /\ pc'[t] = "held") => (~m_busy /\ Holders = {})]_vars

MutualExclusionWitness ==
  \E t, u \in Tasks : pc[t] = "held" /\ pc[u] = "waiting" /\ last.op = "acquire"

\* C2: bus scan: the probe write(a, NULL) that follows a successful acquire()
\* on a bus nobody else drives returns 0 exactly when a device with address a
\* is present and its acknowledge bit was clocked in, and a negative value
\* whenever no device has address a
IsProbe ==
  /\ last.op = "write" /\ last.vp = NULLVP
  /\ prev.op = "acquire" /\ acquired /\ ~last.env.held

BusScan ==
  IsProbe =>
    /\ (last.res = 0) <=> (last.dev \in Devices /\ ~last.tmo)
    /\ last.dev \notin Devices => last.res < 0

BusScanWitness == IsProbe /\ last.res = 0 /\ last.dev = 104

\* C3: a read of M >= 1 bytes that follows a successful write in a transaction
\* whose acquire() succeeded, and that reaches its address byte, has put exactly one (repeated)
\* start and no stop on the bus before the first bit of the address byte
IsCombined ==
  /\ last.op = "read" /\ last.count >= 1
  /\ prev.op = "write" /\ prev.ok /\ acquired
  /\ PulseIdx # {}

CombinedWriteRead ==
  IsCombined =>
    /\ Cardinality({i \in 1..FirstPulse : StartAt(i)}) = 1
    /\ {i \in 1..FirstPulse : StopAt(i)} = {}
    /\ obs # << >> /\ obs[1].k = "S"
    /\ \A i \in 2..Len(obs) : obs[i].k \notin {"S", "P"}

CombinedWriteReadWitness == IsCombined /\ last.res = 2

\* C4: a successful scatter/gather write in a transaction whose acquire()
\* succeeded is seen by the slave as the address byte followed by the bytes of
\* the segments in list order, all acknowledged, with no start or stop after
\* the first address bit
IsGather ==
  /\ last.op = "write" /\ last.vp # NULLVP /\ last.res >= 0
  /\ acquired /\ ~last.env.held

GatherFrame ==
  <<[k |-> "A", v |-> last.addr, ack |-> TRUE]>> \o
  [i \in 1..Len(Flatten(last.vp)) |-> [k |-> "W", v |-> Flatten(last.vp)[i], ack |-> TRUE]]

ScatterGatherWrite ==
  IsGather =>
    /\ \E i \in 1..Len(obs) :
         /\ SubSeq(obs, i, Len(obs)) = GatherFrame
         /\ \A j \in 1..(i - 1) : obs[j].k \in {"S", "P"}
    /\ \A i \in FirstPulse..Len(trace) : ~StartAt(i) /\ ~StopAt(i)

ScatterGatherWriteWitness ==
  /\ IsGather /\ last.res = 2 /\ Len(last.vp) = 3
  /\ last.vp[1].buf # last.vp[2].buf

\* C5: a completed read of N >= 1 bytes clocks 9 * (N + 1) bits and no more;
\* in the acknowledge slot of each of the first N - 1 data bytes the master
\* drives the data line low, in the slot of the N-th byte it leaves the line
\* released; an addressed slave sees N bytes, the last one not acknowledged
IsReadDone == last.op = "read" /\ last.count >= 1 /\ last.res = last.count

ReadAckPattern ==
  IsReadDone =>
    /\ Len(Pulses) = 9 * (last.count + 1)
    /\ \A j \in 1..last.count :
         Pulses[9 * (j + 1)].sda = (IF j < last.count THEN "out" ELSE "in")
    /\ \A j \in 1..last.count, b \in 1..8 : Pulses[9 * j + b].sda = "in"
    /\ (acquired /\ ~last.env.held) =>
         LET rs == SelectSeq(obs, LAMBDA o : o.k = "R")
         IN /\ Len(rs) = last.count
            /\ \A j \in 1..last.count : rs[j].ack = (j < last.count)

ReadAckPatternWitness == IsReadDone /\ last.count = 2 /\ acquired /\ ~last.env.held

\* C6: the master never polls the released clock more than 25 times in a
\* row; a slave that holds the clock low for fewer than 25 polls causes no
\* timeout; a clock found low on 25 polls in a row is a timeout, and a read or
\* write that met a timeout returns a negative value
ClockStretching ==
  /\ \A i \in 1..Len(trace) : PollRun(i) <= 25
  /\ last.env.len < 25 => ~last.tmo
  /\ last.tmo <=> (\E i \in 1..Len(trace) : LowRun(i) = 25)
  /\ (last.tmo /\ last.op \in {"read", "write"}) => last.res < 0
  /\ (last.tmo /\ last.op = "release") => ~last.ok

ClockStretchingWitness ==
  /\ last.op \in {"read", "write"} /\ last.res >= 0
  /\ \E i \in 1..Len(trace) : LowRun(i) = 24

\* C7: read(addr, 0) returns 0 and performs no line operation at all
ZeroLengthRead ==
  (last.op = "read" /\ last.count = 0) =>
    /\ last.res = 0
    /\ trace = << >>
    /\ m_sda = last.sda0 /\ m_scl = last.scl0

\* C8: a read or write that returns a negative result leaves the busy flag
\* set, and the flag is cleared by no call other than release()
FailureKeepsBus ==
  /\ []((last.op \in {"read", "write"} /\ last.res < 0) => m_busy)
  /\ [][(m_busy /\ ~m_busy') => last'.op = "release"]_vars

FailureKeepsBusWitness ==
  /\ last.op \in {"read", "write"} /\ last.res < 0 /\ m_busy
  /\ \E t \in Tasks : pc[t] = "waiting"

\* C9: when release() returns the busy flag is clear, whether the stop
\* condition succeeded, failed or timed out
ReleaseFreesBus == last.op = "release" => ~m_busy

ReleaseFreesBusWitness == last.op = "release" /\ last.tmo /\ ~m_busy

\* C10: an acquire() that finds the data line low returns false, has driven
\* neither line low, leaves both pins released and the busy flag set; the
\* flag stays set until release()
IsArbitrationLost ==
  /\ last.op = "acquire"
  /\ \E i \in 1..Len(trace) : trace[i].op = "read" /\ trace[i].lvl = 0

ArbitrationFailure ==
  /\ [](IsArbitrationLost =>
          /\ ~last.ok /\ ~acquired
          /\ \A i \in 1..Len(trace) : trace[i].op \notin {"sda_out", "scl_out"}
          /\ m_sda = "in" /\ m_scl = "in"
          /\ m_busy)
  /\ [][(~acquired /\ m_busy /\ ~m_busy') => last'.op = "release"]_vars

ArbitrationFailureWitness == IsArbitrationLost /\ m_busy


\* C11 (as stated): release() signals on the lines exactly when the most
\* recent operation of the transaction was a write; otherwise it performs no
\* line operation
StopOnlyAfterWrite ==
  last.op = "release" => ((trace # << >>) <=> prev.op = "write")

\* C11 (amended): release() runs the stop sequence whatever the most recent
\* operation was: it drives the data line low and releases the clock, and
\* when the clock reads high within the retry budget it releases the data
\* line while the clock is released (the stop pattern); after a timeout it
\* leaves the data line driven
AlwaysStop ==
  last.op = "release" =>
    /\ Len(trace) >= 3
    /\ trace[1].op = "sda_out" /\ trace[2].op = "scl_in" /\ trace[3].op = "poll"
    /\ ~last.tmo => \E i \in 1..Len(trace) : StopAt(i)
    /\ last.tmo => \A i \in 1..Len(trace) : trace[i].op # "sda_in"

AlwaysStopWitness ==
  /\ last.op = "release" /\ prev.op = "read" /\ prev.ok
  /\ \E i \in 1..Len(obs) : obs[i].k = "P"


\* C12: release() returns true exactly when the stop condition completed:
\* the clock read high within the retry budget and the data line read high
\* once the master had released it
ReleaseReportsSuccess ==
  last.op = "release" =>
    (last.ok <=> (~last.tmo /\ \E i \in 1..Len(trace) :
                                 trace[i].op = "read" /\ trace[i].lvl = 1))


\* C13: during a read() or write() of a transaction whose acquire()
\* succeeded the data line never rises while the clock line is high: the
\* bus sees no stop condition before release()
NoStopInTransaction ==
  (last.op \in {"read", "write"} /\ acquired) =>
    \A i \in 1..Len(obs) : obs[i].k # "P"


\* C14: the address byte clocked out by Device::write is 2 * a and by
\* Device::read 2 * a + 1 for every 7-bit address a given to the constructor:
\* the master's drive of the data line in the first eight clock pulses of the
\* call spells that byte, and an addressed slave receives it
AddressByteOf == 2 * last.dev + (IF last.op = "read" THEN 1 ELSE 0)

AddressByte ==
  (last.op \in {"read", "write"} /\ Len(Pulses) >= 8) =>
    /\ \A i \in 1..8 : (Pulses[i].sda = "in") <=> (BitAt(AddressByteOf, i - 1) = 1)
    /\ (prev.op = "acquire" /\ acquired /\ ~last.env.held) =>
         /\ obs # << >>
         /\ obs[1].k = "A" /\ obs[1].v = AddressByteOf

AddressByteWitness ==
  /\ last.op = "read" /\ last.dev = 104 /\ last.res = 1
  /\ prev.op = "acquire" /\ acquired


\* C15: the first acknowledge bit read high (NACK) ends the call: write()
\* after the address byte or any data byte, read() after the address byte;
\* the call returns a negative value and clocks no further bit (the only line
\* operation after the read of the bit is driving the clock low)
IsBitRead(i) == i > 1 /\ trace[i].op = "read" /\ trace[i - 1].op = "poll"
BitReads == {i \in 1..Len(trace) : IsBitRead(i)}
AckReads ==
  IF last.op = "write" THEN BitReads
  ELSE {i \in BitReads : \A j \in BitReads : i <= j}

FirstNackAborts ==
  last.op \in {"read", "write"} =>
    \A i \in AckReads :
      trace[i].lvl = 1 =>
        /\ last.res < 0
        /\ \A j \in (i + 1)..Len(trace) : trace[j].op = "scl_out"

FirstNackAbortsWitness ==
  /\ last.op = "write" /\ last.res < 0 /\ ~last.tmo
  /\ last.vp # NULLVP /\ Len(Flatten(last.vp)) = 2
  /\ \E i \in 1..Len(obs) : obs[i].k = "W" /\ ~obs[i].ack
  /\ Len(SelectSeq(obs, LAMBDA o : o.k = "W")) = 1


\* C16: write() returns the sum of the sizes of the segments (0 for the NULL
\* descriptor and for the sentinel alone) and read() returns count with the
\* buffer holding the bytes in the order the slave sent them; every other
\* return is negative: a call that met a NACK, a timeout or a failed
\* repeated start never returns a partial count
SizeOf(vp) == IF vp = NULLVP THEN 0 ELSE Len(Flatten(vp))
Sent == SelectSeq(obs, LAMBDA o : o.k = "R")
Failed ==
  \/ last.tmo
  \/ \E i \in AckReads : trace[i].lvl = 1
  \/ PulseIdx = {}

ReturnValues ==
  /\ last.op = "write" =>
       /\ last.res = (IF Failed THEN -1 ELSE SizeOf(last.vp))
       /\ (last.res >= 0 /\ acquired /\ ~last.env.held) =>
            Len(SelectSeq(obs, LAMBDA o : o.k = "W" /\ o.ack)) = last.res
  /\ last.op = "read" =>
       /\ last.res = (IF Failed THEN -1 ELSE last.count)
       /\ last.res >= 0 => Len(last.buf) = last.count
       /\ (last.res >= 0 /\ acquired /\ ~last.env.held /\ Len(Sent) = last.count) =>
            \A j \in 1..last.count : last.buf[j] = Sent[j].v

ReturnValuesWitness ==
  /\ last.op = "read" /\ last.res = 2 /\ last.buf = <<195, 44>>
  /\ prev.op = "write" /\ prev.ok


\* C17: read(), write() and release() make a bounded number of line
\* operations whatever the slave does: the clock is released at most once
\* per bit (and once for a repeated start), every wait for the clock ends
\* within 25 polls, and the length of the call is bounded by the number of
\* bytes asked for
Waits == Cardinality({i \in 1..Len(trace) : trace[i].op = "scl_in"})
BytesOf == IF last.op = "read" THEN last.count ELSE SizeOf(last.vp)
MaxOps(bits) == 5 + bits * (4 + 25)

BoundedWaits ==
  /\ last.op \in {"read", "write"} =>
       /\ Waits <= 9 * (BytesOf + 1) + 1
       /\ Len(trace) <= MaxOps(9 * (BytesOf + 1))
  /\ last.op = "release" => (Waits = 1 /\ Len(trace) <= MaxOps(1))
  /\ \A i \in 1..Len(trace) :
       (trace[i].op = "poll" /\ (i = Len(trace) \/ trace[i + 1].op # "poll")) =>
         PollRun(i) <= 25

BoundedWaitsWitness ==
  /\ last.op = "read" /\ last.count = 2 /\ last.tmo /\ Len(Pulses) >= 9
  /\ trace[Len(trace)].op = "poll"


\* C18: once the bus is free while a task waits in acquire(), an acquire()
\* returns: the waiting task's, unless another task took the bus first; when
\* acquire() returns the busy flag is set and the transaction is marked
\* fresh, and the first read() or write() after it reads the data line only
\* inside clocked bits (it generates no repeated start)
Handover ==
  /\ \A b \in Tasks :
       (pc[b] = "waiting" /\ ~m_busy) ~>
         (pc[b] = "held" \/ \E c \in Tasks \ {b} : pc[c] = "held")
  /\ [](last.op = "acquire" => (m_busy /\ m_start /\ pc[last.task] = "held"))
  /\ []((last.op \in {"read", "write"} /\ prev.op = "acquire") =>
          /\ \A i \in 1..Len(trace) : ~StartAt(i)
          /\ \A i \in 1..Len(trace) : trace[i].op = "read" => IsBitRead(i))

HandoverWitness ==
  /\ last.op = "acquire" /\ last.waited /\ prev.op = "release"
  /\ pc[last.task] = "held" /\ m_busy /\ m_start


\* C19: as long as a task that has returned from acquire(), with true or
\* with false, has not called release(), the busy flag stays set and no
\* acquire() of another task returns
MissingRelease ==
  [][\A t \in Tasks :
       (pc[t] = "held" /\ pc'[t] = "held") =>
         /\ m_busy'
         /\ \A u \in Tasks \ {t} : pc'[u] # "held"
         /\ last'.op = "acquire" => last'.task = t]_vars

MissingReleaseWitness ==
  /\ \E t, u \in Tasks : pc[t] = "held" /\ pc[u] = "waiting"
  /\ ~acquired /\ prev.op \in {"read", "write"} /\ last.op = "none"


\* C20: when DS1307::read_ram returns after its acquire() succeeded, it has
\* called release(): the busy flag is clear
ReadRamReleases ==
  (last.op = "read_ram" /\ acquired) => ~m_busy



\* C22: write_byte(b) presents bits 7, 6, ..., 0 of b in eight successive
\* clock-high phases (data line released for 1, driven low for 0), has the
\* data line released in the ninth, and reports as nack the level sampled
\* there: a high level ends the call with a negative result
PulseAt(n) == CHOOSE i \in PulseIdx : Cardinality({j \in PulseIdx : j <= i}) = n
Acks == SelectSeq(obs, LAMBDA o : o.k \in {"A", "W"})
WrittenBytes ==
  <<AddressByteOf>> \o (IF last.op = "write" /\ last.vp # NULLVP THEN Flatten(last.vp) ELSE << >>)

ByteWriteOrder ==
  last.op \in {"read", "write"} =>
    \A k \in 1..Len(WrittenBytes) :
      /\ Len(Pulses) >= 9 * (k - 1) + 8 =>
           \A i \in 1..8 :
             (Pulses[9 * (k - 1) + i].sda = "in") <=> (BitAt(WrittenBytes[k], i - 1) = 1)
      /\ Len(Pulses) >= 9 * k =>
           LET p == PulseAt(9 * k)
           IN /\ trace[p].sda = "in"
              /\ p < Len(trace) /\ trace[p + 1].op = "read"
              /\ (prev.op = "acquire" /\ acquired /\ ~last.env.held) =>
                   /\ Len(Acks) >= k
                   /\ Acks[k].ack = (trace[p + 1].lvl = 0)
              /\ trace[p + 1].lvl = 1 => (last.res < 0 /\ Len(Pulses) = 9 * k)
              /\ (trace[p + 1].lvl = 0 /\ k = Len(WrittenBytes) /\ last.op = "write") =>
                   last.res = Len(WrittenBytes) - 1

ByteWriteOrderWitness ==
  /\ last.op = "write" /\ last.dev = 80 /\ acquired /\ prev.op = "acquire"
  /\ last.vp # NULLVP /\ Flatten(last.vp) = <<90, 195>>
  /\ Len(Pulses) = 27 /\ last.res = 2



\* C23: read_byte returns the byte whose bit 7 is the level sampled in the
\* first of eight successive clock-high phases and bit 0 the level sampled in
\* the last, the master leaves the data line released in all eight, and the
\* byte stored is the byte the addressed slave presented
SampleAt(n) == trace[PulseAt(n) + 1].lvl
Sampled(j) ==
  128 * SampleAt(9 * j + 1) + 64 * SampleAt(9 * j + 2) + 32 * SampleAt(9 * j + 3) +
  16 * SampleAt(9 * j + 4) + 8 * SampleAt(9 * j + 5) + 4 * SampleAt(9 * j + 6) +
  2 * SampleAt(9 * j + 7) + SampleAt(9 * j + 8)

ByteReadOrder ==
  last.op = "read" =>
    /\ \A j \in 1..last.count :
         Len(Pulses) >= 9 * j + 8 =>
           /\ \A b \in 1..8 :
                /\ Pulses[9 * j + b].sda = "in"
                /\ trace[PulseAt(9 * j + b) + 1].op = "read"
           /\ Len(last.buf) >= j => last.buf[j] = Sampled(j)
    /\ \A j \in 1..Len(last.buf) :
         /\ Len(Pulses) >= 9 * j + 9
         /\ (prev.op = "acquire" /\ acquired /\ ~last.env.held) =>
              last.buf[j] = TxByte([env |-> last.env], j - 1)

ByteReadOrderWitness ==
  /\ last.op = "read" /\ last.res = 1 /\ last.buf = <<77>>
  /\ prev.op = "acquire" /\ acquired



\* C24 (as stated): the repeated start releases the clock, then releases the
\* data line and verifies that it reads high, then drives the data line low,
\* then drives the clock low
IsRepeated == last.op \in {"read", "write"} /\ ~last.start0

SdaChanges == {i \in 1..Len(trace) : trace[i].op \in {"sda_in", "sda_out"} /\
                                     SdaBefore(i) # trace[i].sda}
InRepeatedStart(i) == IsRepeated /\ i <= 5

StartsBeforeAddress == {i \in 1..FirstPulse : StartAt(i)}

RepeatedStartDiscipline ==
  (last.op \in {"read", "write"} /\ acquired /\ PulseIdx # {}) =>
    /\ prev.op = "acquire" =>
         /\ StartsBeforeAddress = {}
         /\ trace[1].op \in {"sda_in", "sda_out"} /\ trace[2].op = "scl_in"
         /\ \A i \in 1..FirstPulse : trace[i].op # "read"
    /\ prev.op \in {"read", "write"} =>
         /\ StartsBeforeAddress = {4}
         /\ trace[5].op = "scl_out" /\ trace[7].op = "scl_in"

RepeatedStartDisciplineWitness ==
  /\ last.op = "write" /\ acquired /\ last.res = 2 /\ last.dev = 80
  /\ prev.op = "read" /\ ~prev.ok
  /\ StartsBeforeAddress = {4}



\* C27: a read() or write() that clocks an address bit is preceded, with no
\* other byte in between, by a start the master generated with success: the
\* start of the acquire() just before it, or the repeated start of the call
\* itself; also when the caller has not looked at the result of acquire()
NoAddressWithoutStart ==
  (last.op \in {"read", "write"} /\ PulseIdx # {}) =>
    IF prev.op = "acquire" THEN acquired ELSE StartsBeforeAddress # {}



\* C28: the busy flag is seen clear only when the stop sequence of release()
\* has run to its end (the clock is released, and the data line too unless
\* the wait for the clock timed out); a task returns from acquire() only
\* from such a state, with no call in progress; and the start it puts on the
\* bus comes after the stop of the release() before it
StopSent == \E i \in 1..Len(trace) : StopAt(i)

StopBeforeHandover ==
  /\ [](~m_busy => (last.op \in {"none", "release"} /\ Holders = {} /\ m_scl = "in"))
  /\ [](last.op = "release" =>
          /\ ~m_busy
          /\ StopSent <=> ~last.tmo
          /\ m_sda = (IF last.tmo THEN "out" ELSE "in"))
  /\ [][\A t \in Tasks :
          (pc[t] # "held" /\ pc'[t] = "held") =>
            (Running /\ ~m_busy /\ prev.op \in {"none", "release"})]_vars
  /\ []((last.op = "acquire" /\ prev.op = "release") =>
          \A i \in 1..Len(trace) :
            StartAt(i) => (last.sda0 = "in" \/ \E j \in 1..(i - 1) : StopAt(j)))

StopBeforeHandoverWitness ==
  /\ last.op = "acquire" /\ last.waited /\ prev.op = "release" /\ acquired
  /\ last.sda0 = "out" /\ StopSent


\* C21: in every pass through the retry loop of AT24CXX::read the number of
\* calls of release() equals the number of successful calls of acquire()
\* (one or none), whatever the address write and the data read returned
Releases == SelectSeq(last.calls, LAMBDA c : c.op = "release")
Acquires == SelectSeq(last.calls, LAMBDA c : c.op = "acquire" /\ c.ok)

OneReleasePerAcquire ==
  last.op = "eeprom_read" => Len(Releases) = Len(Acquires)


\* C29: when a driver function has returned because its acquire() failed, the
\* busy flag is clear: no task holds the bus, so nobody would clear it and
\* every later acquire() would wait for ever
DriverOps == {"read_ram", "eeprom_read"}

FailedAcquireFreesBus ==
  (last.op \in DriverOps /\ ~last.again /\ ~acquired /\ Holders = {}) => ~m_busy


\* C30: AT24CXX::write(dest, src, count) with count >= 1 and PAGE_MAX a power
\* of two splits the data into consecutive chunks of 1..PAGE_MAX bytes: a
\* chunk starts at EEPROM address dest plus the lengths of the chunks before
\* it (on 16 bits) and at that offset of src, all its bytes lie in one
\* PAGE_MAX-aligned page, the lengths add up to count when the call returns
\* count, and each chunk goes out as one scatter write of the address, high
\* byte first, followed by the bytes of the chunk
RECURSIVE SumN(_)
SumN(cs) == IF cs = << >> THEN 0 ELSE cs[1].n + SumN(Tail(cs))
StartAddr(d) == d.chunks[1].dest
OnePage(c, PAGE_MAX) == c.dest \div PAGE_MAX = (c.dest + c.n - 1) \div PAGE_MAX
ChunkBytes(d, c) == bswap16(c.dest) \o SubSeq(Bytes(1, d.count), c.off + 1, c.off + c.n)
PassWrites == {i \in 1..Len(last.calls) : last.calls[i].op = "write"}
PassChunks(d) == {c \in {d.chunks[i] : i \in 1..Len(d.chunks)} :
                    c.dest = last.addr /\ c.n = last.count}
DataReceived ==
  LET ws == SelectSeq(obs, LAMBDA o : o.k = "W")
  IN [i \in 1..Len(ws) |-> ws[i].v]
PageSplitting ==
  LET d == drv[Writer]
  IN d.fn = "eeprom_write" =>
       /\ \A i \in 1..Len(d.chunks) :
            LET c == d.chunks[i]
            IN /\ c.n \in 1..d.page
               /\ c.off = SumN(SubSeq(d.chunks, 1, i - 1))
               /\ c.dest = (StartAddr(d) + c.off) % 65536
               /\ OnePage(c, d.page)
               /\ c.off + c.n <= d.count
       /\ (d.done /\ d.res >= 0) => (d.res = d.count /\ SumN(d.chunks) = d.count)
       /\ last.op = "eeprom_write" =>
            /\ Cardinality(PassWrites) <= 1
            /\ \A i \in PassWrites :
                 /\ \E c \in PassChunks(d) : last.calls[i].arg = ChunkBytes(d, c)
                 /\ last.calls[i].res > 0 =>
                      \E c \in PassChunks(d) : DataReceived = ChunkBytes(d, c)
PageSplittingWitness ==
  LET d == drv[Writer]
  IN /\ d.fn = "eeprom_write" /\ d.done /\ d.res = 3 /\ d.page = 2
     /\ Len(d.chunks) = 2 /\ d.chunks[1].n = 1 /\ StartAddr(d) = 65535
     /\ last.op = "eeprom_write" /\ PassWrites # {}
     /\ DataReceived = <<0, 0>> \o SubSeq(Bytes(1, 3), 2, 3)


\* C31: Hardware::TWI (AVR) read() reports every failure as a negative value:
\* when the repeated start, the address byte or a data byte does not reach
\* the status waited for, the result is negative, and the result is 0 only
\* for a read of 0 bytes without failure
AvrFailed == \E i \in 1..Len(avr.twsr) : BitAnd(avr.twsr[i], MASK) # avr.want[i]
AvrReadFailuresNegative ==
  avr.op = "read" =>
    /\ AvrFailed => avr.res < 0
    /\ avr.res = 0 => (avr.count = 0 /\ ~AvrFailed)


\* C32: the SAM bus manager closes each pending write exactly once: a call
\* entered in WRITE_STATE that is a read() with count > 0, a probe
\* write(addr, NULL) or release() issues exactly one stop command through
\* stop_condition() and leaves WRITE_STATE; any other call entered in
\* WRITE_STATE issues none and stays in WRITE_STATE; release() entered in
\* another state issues no stop command, and the bus manager is never free
\* with a write pending
SamStops == Len(SelectSeq(sam.regs, LAMBDA w : w.reg = "TWI_CR" /\ w.val = "STOP"
                                                 /\ w.by = "stop_condition"))
SamAnyStops == Len(SelectSeq(sam.regs, LAMBDA w : w.reg = "TWI_CR" /\ w.val = "STOP"))
SamCloses ==
  \/ sam.op = "read" /\ sam.count > 0
  \/ sam.op = "write" /\ sam.vp = NULLVP
  \/ sam.op = "release"
PendingWriteClosedOnce ==
  /\ (sam.state0 = "WRITE_STATE" /\ SamCloses) =>
       (SamStops = 1 /\ sam.m_state # "WRITE_STATE")
  /\ (sam.state0 = "WRITE_STATE" /\ ~SamCloses) =>
       (SamStops = 0 /\ sam.m_state = "WRITE_STATE")
  /\ (sam.state0 # "WRITE_STATE" /\ sam.op = "release") => SamAnyStops = 0
  /\ (sam.state0 # "WRITE_STATE" /\ sam.op = "read") => SamStops = 0
  /\ ~sam.m_busy => sam.m_state # "WRITE_STATE"
PendingWriteClosedOnceWitness ==
  /\ sam.state0 = "WRITE_STATE" /\ sam.op = "read" /\ sam.count = 1 /\ sam.res = 1
  /\ SamStops = 1 /\ SamAnyStops = 2 /\ sam.m_state = "BUSY_STATE"

\* C38: under the acquire / read, write / release protocol the busy flag of
\* the SAM bus manager is set exactly when m_state differs from IDLE_STATE,
\* and m_state is WRITE_STATE only if the latest call that changed m_state
\* was a write with an io vector
SamStateInvariant ==
  /\ sam.m_busy <=> sam.m_state # "IDLE_STATE"
  /\ sam.m_state = "WRITE_STATE" => (sam.by.op = "write" /\ sam.by.vp # NULLVP)
SamStateInvariantWitness ==
  /\ sam.m_busy /\ sam.m_state = "WRITE_STATE" /\ sam.op = "read" /\ sam.count = 0
  /\ sam.by.op = "write"


\* C33: every read() or write() of the legacy (v1.0) software bus manager
\* that generated its start condition has put a stop condition on the bus
\* when it returns, on success and on every failure: the latest start or
\* stop the bus has seen in the call is a stop
LegacyCall == last.op \in {"read_v10", "write_v10"}
LegacyStarted == Len(trace) >= 3 /\ trace[2].op = "read" /\ trace[2].lvl = 1
FrameMarks == SelectSeq(obs, LAMBDA o : o.k \in {"S", "P"})
LegacyFrameClosed ==
  (LegacyCall /\ LegacyStarted) =>
    (FrameMarks # << >> /\ FrameMarks[Len(FrameMarks)].k = "P" /\ StopSent)


\* C34: PCF8574::read() returns, for every pin configured as input, the level
\* the device reported for the pin in the byte read from the bus, and for
\* every output pin the stored port bit; GPIO<PIN>::read() returns that bit
PcfReadReturnsPins ==
  /\ (pcf.op = "read" /\ pcf.read_ok) =>
       \A pin \in 0..7 :
         BitTest(pcf.res, pin) = IF BitTest(pcf.m_ddr, pin) = 1 THEN BitTest(pcf.got, pin)
                                 ELSE BitTest(pcf.m_port, pin)
  /\ (pcf.op = "gpio_read" /\ pcf.read_ok) =>
       pcf.res = IF BitTest(pcf.m_ddr, pcf.pin) = 1 THEN BitTest(pcf.got, pcf.pin)
                 ELSE BitTest(pcf.m_port, pcf.pin)

\* C35: every byte the PCF8574 driver sends to the device has a 1 in every
\* bit position configured as input, and GPIO<PIN>::write changes no bit of
\* the port register other than the bit of PIN
PcfInputsWrittenHigh ==
  /\ \A i \in 1..Len(pcf.sent) : BitAnd(pcf.sent[i], pcf.m_ddr) = pcf.m_ddr
  /\ pcf.op = "gpio_write" =>
       \A pin \in 0..7 \ {pcf.pin} : BitTest(pcf.m_port, pin) = BitTest(pcf.port0, pin)


\* the commands a conversion request leaves in m_cmd
BmpPressureCmds == { pressure_cmd(mode) : mode \in 0..3 }
BmpRequests == {"sample_temperature_request", "sample_pressure_request"}

\* the latest call returned false before it touched the bus
BmpRefused == ~bmp.res /\ bmp.bus = << >>

\* C36: the BMP085 driver holds at most one pending conversion, the
\* command in m_cmd; a request made while a conversion is pending returns
\* false with no call to the bus, read_temperature() does so unless the
\* pending command is the temperature command, read_pressure() unless it
\* is a pressure command, and a read that passes its check leaves no
\* conversion pending.
BmpRequestReadProtocol ==
  /\ bmp.m_cmd \in {0, TEMP_CONV_CMD} \cup BmpPressureCmds
  /\ (bmp.op \in BmpRequests /\ bmp.cmd0 # 0) => BmpRefused
  /\ (bmp.op = "read_temperature" /\ bmp.cmd0 # TEMP_CONV_CMD) => BmpRefused
  /\ (bmp.op = "read_pressure" /\ bmp.cmd0 \notin BmpPressureCmds) => BmpRefused
  /\ (bmp.op = "read_temperature" /\ bmp.cmd0 = TEMP_CONV_CMD) => bmp.m_cmd = 0
  /\ (bmp.op = "read_pressure" /\ bmp.cmd0 = pressure_cmd(bmp.m_mode)) => bmp.m_cmd = 0

\* a temperature conversion was pending and read_temperature() read it
BmpRequestReadProtocolWitness ==
  /\ bmp.op = "read_temperature"
  /\ bmp.cmd0 = TEMP_CONV_CMD
  /\ bmp.res
  /\ bmp.m_cmd = 0
  /\ Len(bmp.bus) = 4

\* C37: a conversion request that returns false leaves m_cmd as it was
\* before the call.
BmpFailedRequestKeepsCmd ==
  (bmp.op \in BmpRequests /\ ~bmp.res) => bmp.m_cmd = bmp.cmd0


\* C39: for every v in 0..99, bcd_t(v) stores a byte whose high nibble is
\* v div 10 and whose low nibble is v mod 10, both at most 9, and
\* operator uint8_t gives v back from that byte.
BcdRoundTrip ==
  (bcd.made = "value" /\ bcd.value \in 0..99) =>
    /\ bcd.m_value \div 16 = bcd.value \div 10
    /\ bcd.m_value % 16 = bcd.value % 10
    /\ bcd.m_value \div 16 <= 9
    /\ bcd.m_value % 16 <= 9
    /\ bcd.op = "uint8_t" => bcd.out = bcd.value

\* 99 was stored as 0x99 and converted back
BcdRoundTripWitness ==
  /\ bcd.op = "uint8_t"
  /\ bcd.made = "value"
  /\ bcd.value = 99
  /\ bcd.m_value = 153
  /\ bcd.out = 99

====
